---- MODULE Spec2Model ----
(***************************************************************************)
(* Flood-risk and routing engine of FLOOD_SAFE_GUARD: the risk classifier, *)
(* the closest-river lookup, the road-status classifier, the route         *)
(* composer, and the GET /api/roads write-back of road statuses.           *)
(*                                                                         *)
(* Units.  All points lie on one meridian, so a coordinate is its latitude *)
(* alone, an integer number of millidegrees; the longitude difference of   *)
(* any two points is 0.  On a meridian the haversine formula reduces to    *)
(* R * |dlat| (radians), i.e. 111.195 m per millidegree, so distances are  *)
(* integers in millimetres and every comparison of the code is exact.      *)
(* Water levels and thresholds are integers (metres).  A nullable value    *)
(* is a sequence: <<>> is null, <<v>> is the value v.                      *)
(***************************************************************************)
EXTENDS Integers, Sequences, FiniteSets

VARIABLES
    riverLevels,   \* the store's river readings, in the order the store yields them
    roads,         \* the store's roads, in the order the store yields them
    reqs,          \* the GET /api/roads requests in flight
    resp,          \* what the last completed operation returned
    users,         \* the store's users, in id order
    locations,     \* the store's locations, in id order
    floodRisks,    \* the store's flood-risk records, in id order
    alerts,        \* the store's alerts, in id order
    session,       \* the browser session: the logged-in user and lastAlertType
    now,           \* the server clock, in minutes
    outbox         \* the flood-alert emails handed to the email service

\* The account side of the store, the session, the clock and the mail outbox.
accounts == <<users, locations, floodRisks, alerts, session, now, outbox>>

vars == <<riverLevels, roads, reqs, resp, accounts>>

\* The session express-session creates for a browser without one (no cookie yet,
\* or after req.session.destroy()): nobody logged in, no lastAlertType.
NewSession(id) == [id |-> id, user |-> <<>>, lastAlertType |-> <<>>]

\* A server with no accounts: the state of the account side wherever only the
\* flood and routing engine is exercised.
NoAccounts ==
    /\ users = <<>>
    /\ locations = <<>>
    /\ floodRisks = <<>>
    /\ alerts = <<>>
    /\ session = NewSession(1)
    /\ now = 0
    /\ outbox = <<>>

\* ------------------------------------------------------------------ enumerations

HIGH == "HIGH"
MEDIUM == "MEDIUM"
LOW == "LOW"
RISK_LEVELS == {HIGH, MEDIUM, LOW}

UNDER_FLOOD == "UNDER_FLOOD"
NEAR_FLOOD == "NEAR_FLOOD"
SAFE == "SAFE"
ROAD_STATUS == {UNDER_FLOOD, NEAR_FLOOD, SAFE}

\* ------------------------------------------------------------------ program constants

\* R * pi / 180 = 111.195 km per degree, in millimetres per millidegree.
MmPerMilliDegree == 111195
\* storage's km-to-degree divisor of the area queries.
KmPerDegreeApprox == 111
\* predictFloodRisk's margin around the critical threshold (metres).
Margin == 5
\* predictFloodRisk's "within 500m of river" (mm).
CloseToRiver == 500000
\* the distance override of the .bak revision and of the client: 5 km (mm).
OverrideDistance == 5000000
\* the client's default threshold.
ClientDefaultThreshold == 80

\* ------------------------------------------------------------------ helpers

Abs(x) == IF x < 0 THEN -x ELSE x

NULL == <<>>

\* JavaScript's  v || d  on a nullable number: null and 0 are falsy.
OrElse(v, d) == IF v # NULL /\ v[1] # 0 THEN v[1] ELSE d

\* haversine(lat1, lon, lat2, lon): the great-circle distance of two points of the
\* same meridian, in mm.
haversine(lat1, lat2) == MmPerMilliDegree * Abs(lat2 - lat1)

\* ------------------------------------------------------------------ risk classifier

predictFloodRisk_NoMargin(waterLevel, criticalThreshold, distanceToRiver) ==
    IF waterLevel >= criticalThreshold + Margin THEN HIGH
    ELSE IF waterLevel >= criticalThreshold THEN HIGH
    ELSE IF waterLevel > criticalThreshold - Margin THEN MEDIUM
    ELSE IF distanceToRiver < CloseToRiver THEN MEDIUM
    ELSE LOW

\* The closeness rule turned round: MEDIUM away from the river, LOW next to it.
predictFloodRisk_FarIsMedium(waterLevel, criticalThreshold, distanceToRiver) ==
    IF waterLevel >= criticalThreshold + Margin THEN HIGH
    ELSE IF waterLevel >= criticalThreshold THEN HIGH
    ELSE IF waterLevel >= criticalThreshold - Margin THEN MEDIUM
    ELSE IF distanceToRiver < CloseToRiver THEN LOW
    ELSE MEDIUM

\* floodService.ts and part_004: no distance override.
predictFloodRisk(waterLevel, criticalThreshold, distanceToRiver) ==
    IF waterLevel >= criticalThreshold + Margin THEN HIGH
    ELSE IF waterLevel >= criticalThreshold THEN HIGH
    ELSE IF waterLevel >= criticalThreshold - Margin THEN MEDIUM
    ELSE IF distanceToRiver < CloseToRiver THEN MEDIUM
    ELSE LOW

predictFloodRiskBak_OverrideLast(waterLevel, criticalThreshold, distanceToRiver) ==
    IF waterLevel >= criticalThreshold + Margin THEN HIGH
    ELSE IF waterLevel >= criticalThreshold THEN HIGH
    ELSE IF waterLevel >= criticalThreshold - Margin THEN MEDIUM
    ELSE IF distanceToRiver > OverrideDistance THEN LOW
    ELSE IF distanceToRiver < CloseToRiver THEN MEDIUM
    ELSE LOW

\* floodService.ts.bak: the distance override, then the same rules.
predictFloodRiskBak(waterLevel, criticalThreshold, distanceToRiver) ==
    IF distanceToRiver > OverrideDistance THEN LOW
    ELSE IF waterLevel >= criticalThreshold + Margin THEN HIGH
    ELSE IF waterLevel >= criticalThreshold THEN HIGH
    ELSE IF waterLevel >= criticalThreshold - Margin THEN MEDIUM
    ELSE IF distanceToRiver < CloseToRiver THEN MEDIUM
    ELSE LOW

\* leaflet-map.jsx: the client's copy; criticalThreshold is nullable.
assessFloodRiskLevel(waterLevel, criticalThreshold, distanceToRiver) ==
    LET threshold == OrElse(criticalThreshold, ClientDefaultThreshold)
    IN  IF distanceToRiver > OverrideDistance THEN LOW
        ELSE IF waterLevel >= threshold + Margin THEN HIGH
        ELSE IF waterLevel >= threshold THEN HIGH
        ELSE IF waterLevel >= threshold - Margin THEN MEDIUM
        ELSE IF distanceToRiver < CloseToRiver THEN MEDIUM
        ELSE LOW

\* ------------------------------------------------------------------ inputs of the classifier

MaxWaterLevel == 22
WaterLevels == 0 .. MaxWaterLevel
ThresholdSamples == {0, 8, 15}
DistanceSamples == {0, 499999, 500000, 2000000, 5000000, 5000001, 6000000}

NoResp == [op |-> "none"]

\* predictFloodRisk called by the server (no distance override).
PredictFloodRiskCall(w, t, d) ==
    /\ resp' = [op |-> "predictFloodRisk", waterLevel |-> w, criticalThreshold |-> <<t>>,
                distanceToRiver |-> d, riskLevel |-> predictFloodRisk(w, t, d)]
    /\ UNCHANGED <<riverLevels, roads, reqs, accounts>>

\* predictFloodRisk of the .bak revision (distance override).
PredictFloodRiskBakCall(w, t, d) ==
    /\ resp' = [op |-> "predictFloodRiskBak", waterLevel |-> w, criticalThreshold |-> <<t>>,
                distanceToRiver |-> d, riskLevel |-> predictFloodRiskBak(w, t, d)]
    /\ UNCHANGED <<riverLevels, roads, reqs, accounts>>

\* assessFloodRiskLevel called by the client.
AssessFloodRiskLevelCall(w, t, d) ==
    /\ resp' = [op |-> "assessFloodRiskLevel", waterLevel |-> w, criticalThreshold |-> t,
                distanceToRiver |-> d, riskLevel |-> assessFloodRiskLevel(w, t, d)]
    /\ UNCHANGED <<riverLevels, roads, reqs, accounts>>

InitRisk ==
    /\ riverLevels = <<>>
    /\ roads = <<>>
    /\ reqs = <<>>
    /\ resp = NoResp
    /\ NoAccounts

NextRisk ==
    \E w \in WaterLevels, t \in ThresholdSamples, d \in DistanceSamples :
        \/ PredictFloodRiskCall(w, t, d)
        \/ PredictFloodRiskBakCall(w, t, d)
        \/ AssessFloodRiskLevelCall(w, <<t>>, d)
        \/ AssessFloodRiskLevelCall(w, NULL, d)

SpecRisk == InitRisk /\ [][NextRisk]_vars

\* ------------------------------------------------------------------ claims: risk classifier

\* The four-row decision table of the specification.
DecisionTable(w, t, d) ==
    IF w >= t THEN HIGH
    ELSE IF w >= t - 5 THEN MEDIUM
    ELSE IF d < 500000 THEN MEDIUM
    ELSE LOW

\* C1: without the distance override, predictFloodRisk returns HIGH if w >= t,
\* otherwise MEDIUM if w >= t - 5, otherwise MEDIUM if d < 0.5 km, otherwise LOW:
\* the four-row table is exact for the five-branch code.
C1_TableExact ==
    resp.op = "predictFloodRisk" =>
        resp.riskLevel = DecisionTable(resp.waterLevel, resp.criticalThreshold[1],
                                       resp.distanceToRiver)

\* C1 witness: a call on which the code's first branch (w >= t + 5) decides.
C1_Witness ==
    /\ resp.op = "predictFloodRisk"
    /\ resp.waterLevel >= resp.criticalThreshold[1] + 5
    /\ resp.riskLevel = HIGH

\* C4 (as claimed): the client's copy returns what the server's predictFloodRisk
\* returns for every water level, non-null non-zero threshold and distance.
C4_ClientMatchesServer ==
    (resp.op = "assessFloodRiskLevel" /\ resp.criticalThreshold # NULL
        /\ resp.criticalThreshold # <<0>>) =>
        resp.riskLevel = predictFloodRisk(resp.waterLevel, resp.criticalThreshold[1],
                                          resp.distanceToRiver)

\* C9: with the distance override, predictFloodRisk returns LOW whenever the
\* distance exceeds 5 km, and the decision table's result otherwise.
C9_OverrideFirst ==
    resp.op = "predictFloodRiskBak" =>
        resp.riskLevel =
            IF resp.distanceToRiver > 5000000 THEN LOW
            ELSE DecisionTable(resp.waterLevel, resp.criticalThreshold[1],
                               resp.distanceToRiver)

\* C9 witness: water far above the threshold, more than 5 km away, rated LOW.
C9_Witness ==
    /\ resp.op = "predictFloodRiskBak"
    /\ resp.distanceToRiver > 5000000
    /\ resp.waterLevel >= resp.criticalThreshold[1] + 5
    /\ resp.riskLevel = LOW

\* The order LOW < MEDIUM < HIGH.
RiskRank(riskLevel) == CASE riskLevel = LOW -> 0 [] riskLevel = MEDIUM -> 1 [] riskLevel = HIGH -> 2

\* Two calls in a row of the same predictFloodRisk, without or with the override.
SameClassifier == resp.op = resp'.op /\ resp.op \in {"predictFloodRisk", "predictFloodRiskBak"}

\* C30: predictFloodRisk is monotone, without and with the distance override: of
\* two calls with the same threshold and distance the one with the higher water
\* level returns no lower risk level, and of two calls with the same water level
\* and threshold the one farther from the river returns no higher risk level.
C30_Monotone ==
    [][SameClassifier /\ resp.criticalThreshold = resp'.criticalThreshold =>
         /\ (resp.distanceToRiver = resp'.distanceToRiver
             /\ resp.waterLevel <= resp'.waterLevel)
               => RiskRank(resp.riskLevel) <= RiskRank(resp'.riskLevel)
         /\ (resp.waterLevel = resp'.waterLevel
             /\ resp.distanceToRiver <= resp'.distanceToRiver)
               => RiskRank(resp.riskLevel) >= RiskRank(resp'.riskLevel)]_vars

\* C30 witness: well below the threshold and next to the river the level is MEDIUM,
\* so that both more water and more distance change it.
C30_Witness ==
    /\ resp.op = "predictFloodRisk"
    /\ resp.waterLevel < resp.criticalThreshold[1] - Margin
    /\ resp.distanceToRiver < CloseToRiver
    /\ resp.riskLevel = MEDIUM

\* ------------------------------------------------------------------ river store

\* the radius of getClosestRiverLevel's area query: 10 km (mm).
ClosestRiverRadius == 10000000

WithinRange_Inclusive(diff, radius) == diff * KmPerDegreeApprox * 1000 <= radius

\* |diff| < radius / 111 of the area queries: diff in millidegrees, radius in mm.
WithinRange(diff, radius) == diff * KmPerDegreeApprox * 1000 < radius

\* storage.getRiverLevelsByArea: the readings of the store, in its order, whose
\* latitude and longitude both differ from the point's by less than radius / 111
\* degrees (the longitude difference is 0 on the meridian).
getRiverLevelsByArea(latitude, radius) ==
    SelectSeq(riverLevels,
              LAMBDA riverLevel :
                  /\ WithinRange(Abs(riverLevel.latitude - latitude), radius)
                  /\ WithinRange(0, radius))

closestStep_LastWins(list, latitude, i, closestRiver, minDistance) ==
    LET distance == haversine(latitude, list[i].latitude)
    IN  IF distance <= minDistance
        THEN [riverLevel |-> list[i], distance |-> distance]
        ELSE [riverLevel |-> closestRiver, distance |-> minDistance]

\* One iteration of the scan: river = list[i] replaces the closest one only when
\* strictly nearer.
closestStep(list, latitude, i, closestRiver, minDistance) ==
    LET distance == haversine(latitude, list[i].latitude)
    IN  IF distance < minDistance
        THEN [riverLevel |-> list[i], distance |-> distance]
        ELSE [riverLevel |-> closestRiver, distance |-> minDistance]

RECURSIVE closestScan(_, _, _, _)
\* for (const river of riverLevels) { ... }  from index i on, acc the closest so far.
closestScan(list, latitude, i, acc) ==
    IF i > Len(list) THEN acc
    ELSE closestScan(list, latitude, i + 1,
                     closestStep(list, latitude, i, acc.riverLevel, acc.distance))

\* The linear scan shared by the server's getClosestRiverLevel and the client's
\* getClosestRiver: null for an empty list, else the closest reading and its distance.
closestOf(list, latitude) ==
    IF Len(list) = 0 THEN NULL
    ELSE <<closestScan(list, latitude, 1,
                       [riverLevel |-> list[1],
                        distance |-> haversine(latitude, list[1].latitude)])>>

\* part_004 / floodService.ts: getClosestRiverLevel.
getClosestRiverLevel(latitude) ==
    closestOf(getRiverLevelsByArea(latitude, ClosestRiverRadius), latitude)

\* leaflet-map.jsx: getClosestRiver on the list the client holds.
getClosestRiver(userLat, list) == closestOf(list, userLat)

\* The test river floodService.ts.bak makes up when the area holds no reading:
\* offset and level stand for its Math.random() draws.
TestRiver(latitude, offset, level) ==
    [id |-> 999, latitude |-> latitude + offset, level |-> level,
     criticalThreshold |-> <<15>>]

\* floodService.ts.bak: getClosestRiverLevel; never null.
getClosestRiverLevelBak(latitude, offset, level) ==
    LET list == getRiverLevelsByArea(latitude, ClosestRiverRadius)
    IN  IF Len(list) = 0
        THEN <<[riverLevel |-> TestRiver(latitude, offset, level),
                distance |-> haversine(latitude, latitude + offset)]>>
        ELSE closestOf(list, latitude)

\* The known rivers of getRiverNameByLocation, by latitude (millidegrees).
KnownRivers ==
    << [latitude |-> 17385, name |-> "Musi River"],
       [latitude |-> 18520, name |-> "Mula River"],
       [latitude |-> 19076, name |-> "Mithi River"],
       [latitude |-> 12972, name |-> "Vrishabhavathi River"] >>

RECURSIVE nameScan(_, _, _, _)
\* acc = <<minDistance, closestRiver>>; minDistance NULL stands for Infinity.
nameScan(latitude, i, minDistance, closestRiver) ==
    IF i > Len(KnownRivers) THEN closestRiver
    ELSE LET distance == haversine(latitude, KnownRivers[i].latitude)
         IN  IF minDistance = NULL \/ distance < minDistance[1]
             THEN nameScan(latitude, i + 1, <<distance>>, KnownRivers[i].name)
             ELSE nameScan(latitude, i + 1, minDistance, closestRiver)

\* FloodService.getRiverNameByLocation (default "Unknown River"; "River" in .bak).
getRiverNameByLocation(latitude) == nameScan(latitude, 1, NULL, "Unknown River")
getRiverNameByLocationBak(latitude) == nameScan(latitude, 1, NULL, "River")

\* ------------------------------------------------------------------ flood risk assessor

thresholdArg_NoFallback(riverLevel) == riverLevel.criticalThreshold

\* The default threshold taken above the level instead of below it.
thresholdArg_AboveLevel(riverLevel) ==
    <<OrElse(riverLevel.criticalThreshold, riverLevel.level + Margin)>>

\* riverLevel.criticalThreshold || riverLevel.level - 5: the second argument of the
\* call of predictFloodRisk, as a nullable value.
thresholdArg(riverLevel) ==
    <<OrElse(riverLevel.criticalThreshold, riverLevel.level - Margin)>>

\* The number a comparison or subtraction of predictFloodRisk makes of its argument:
\* null counts as 0.
ToNumber(v) == IF v = NULL THEN 0 ELSE v[1]

\* The arguments assessFloodRisk passes to predictFloodRisk, NULL when it returns
\* before the call.
predictCall(latitude) ==
    LET closestRiverData == getClosestRiverLevel(latitude)
    IN  IF closestRiverData = NULL THEN NULL
        ELSE <<[waterLevel |-> closestRiverData[1].riverLevel.level,
                criticalThreshold |-> thresholdArg(closestRiverData[1].riverLevel),
                distanceToRiver |-> closestRiverData[1].distance]>>

\* part_004 / floodService.ts: FloodService.assessFloodRisk.
assessFloodRisk(latitude) ==
    LET closestRiverData == getClosestRiverLevel(latitude)
        riverLevel == closestRiverData[1].riverLevel
        distance == closestRiverData[1].distance
    IN  IF closestRiverData = NULL
        THEN [riskLevel |-> LOW, waterLevel |-> 0, thresholdLevel |-> <<0>>,
              distance |-> NULL, riverName |-> NULL]
        ELSE [riskLevel |-> predictFloodRisk(riverLevel.level,
                                ToNumber(thresholdArg(riverLevel)),
                                distance),
              waterLevel |-> riverLevel.level,
              thresholdLevel |-> riverLevel.criticalThreshold,
              distance |-> <<distance>>,
              riverName |-> <<getRiverNameByLocation(riverLevel.latitude)>>]

\* floodService.ts.bak: FloodService.assessFloodRisk; offset and level are the
\* random draws of the test river.
assessFloodRiskBak(latitude, offset, level) ==
    LET closestRiverData == getClosestRiverLevelBak(latitude, offset, level)
        riverLevel == closestRiverData[1].riverLevel
        distance == closestRiverData[1].distance
    IN  IF closestRiverData = NULL
        THEN [riskLevel |-> LOW, waterLevel |-> 0, thresholdLevel |-> <<0>>,
              distance |-> <<999000000>>, riverName |-> NULL]
        ELSE [riskLevel |-> predictFloodRiskBak(riverLevel.level,
                                OrElse(riverLevel.criticalThreshold,
                                       riverLevel.level - Margin),
                                distance),
              waterLevel |-> riverLevel.level,
              thresholdLevel |-> riverLevel.criticalThreshold,
              distance |-> <<distance>>,
              riverName |-> <<getRiverNameByLocationBak(riverLevel.latitude)>>]

\* ------------------------------------------------------------------ inputs of the assessor

MaxRivers == 2
RiverLats == {0, 2, 60}
Levels == {3, 12}
Thresholds == {NULL, <<0>>, <<10>>}
QueryLats == {0, 1, 3, 200}
\* the test river's draws: offsets within +-0.01 degree, levels within [5, 20).
TestRiverOffsets == {-9, 0, 3}
TestRiverLevels == {5, 12, 19}
\* the radii (mm) of the client's GET /api/river-levels queries.
ClientRadii == {10000000, 100000000}

\* The stores a run may start from: up to max readings, ids in insertion order.
RiverStores(max) ==
    UNION { { [i \in 1 .. n |-> [id |-> i, latitude |-> f[i][1], level |-> f[i][2],
                                 criticalThreshold |-> f[i][3]]] :
              f \in [1 .. n -> RiverLats \X Levels \X Thresholds] } : n \in 0 .. max }

GetClosestRiverLevelCall(lat) ==
    /\ resp' = [op |-> "getClosestRiverLevel", latitude |-> lat,
                candidates |-> getRiverLevelsByArea(lat, ClosestRiverRadius),
                result |-> getClosestRiverLevel(lat)]
    /\ UNCHANGED <<riverLevels, roads, reqs, accounts>>

GetClosestRiverCall(lat, radius) ==
    /\ resp' = [op |-> "getClosestRiver", latitude |-> lat,
                candidates |-> getRiverLevelsByArea(lat, radius),
                result |-> getClosestRiver(lat, getRiverLevelsByArea(lat, radius))]
    /\ UNCHANGED <<riverLevels, roads, reqs, accounts>>

AssessFloodRiskCall(lat) ==
    /\ resp' = [op |-> "assessFloodRisk", rev |-> "main", latitude |-> lat,
                candidates |-> getRiverLevelsByArea(lat, ClosestRiverRadius),
                predictCall |-> predictCall(lat),
                result |-> assessFloodRisk(lat)]
    /\ UNCHANGED <<riverLevels, roads, reqs, accounts>>

AssessFloodRiskBakCall(lat, offset, level) ==
    /\ resp' = [op |-> "assessFloodRisk", rev |-> "bak", latitude |-> lat,
                candidates |-> getRiverLevelsByArea(lat, ClosestRiverRadius),
                result |-> assessFloodRiskBak(lat, offset, level)]
    /\ UNCHANGED <<riverLevels, roads, reqs, accounts>>

InitAssess ==
    /\ riverLevels \in RiverStores(MaxRivers)
    /\ roads = <<>>
    /\ reqs = <<>>
    /\ resp = NoResp
    /\ NoAccounts

NextAssess ==
    \E lat \in QueryLats :
        \/ GetClosestRiverLevelCall(lat)
        \/ \E radius \in ClientRadii : GetClosestRiverCall(lat, radius)
        \/ AssessFloodRiskCall(lat)
        \/ \E offset \in TestRiverOffsets, level \in TestRiverLevels :
               AssessFloodRiskBakCall(lat, offset, level)

SpecAssess == InitAssess /\ [][NextAssess]_vars

\* ------------------------------------------------------------------ claims: river lookup and assessor

\* C8 (as claimed): with no reading in the search area assessFloodRisk returns
\* exactly {riskLevel: LOW, waterLevel: 0, thresholdLevel: 0, distance: null,
\* riverName: null}.
C8_ZeroState ==
    (resp.op = "assessFloodRisk" /\ resp.candidates = <<>>) =>
        resp.result = [riskLevel |-> LOW, waterLevel |-> 0, thresholdLevel |-> <<0>>,
                       distance |-> NULL, riverName |-> NULL]

DistanceTo(lat, reading) == 111195 * (IF reading.latitude < lat
                                      THEN lat - reading.latitude
                                      ELSE reading.latitude - lat)

\* C10: getClosestRiverLevel (and the client's getClosestRiver) returns null
\* exactly when the area query yields no reading; otherwise the first reading, in
\* the store's order, among those at minimal distance, together with that distance.
C10_ClosestFirst ==
    resp.op \in {"getClosestRiverLevel", "getClosestRiver"} =>
        /\ (resp.result = NULL) <=> (resp.candidates = <<>>)
        /\ resp.result # NULL =>
             \E i \in 1 .. Len(resp.candidates) :
                /\ resp.result[1].riverLevel = resp.candidates[i]
                /\ resp.result[1].distance = DistanceTo(resp.latitude, resp.candidates[i])
                /\ \A j \in 1 .. Len(resp.candidates) :
                      DistanceTo(resp.latitude, resp.candidates[j])
                          >= DistanceTo(resp.latitude, resp.candidates[i])
                /\ \A j \in 1 .. (i - 1) :
                      DistanceTo(resp.latitude, resp.candidates[j])
                          > DistanceTo(resp.latitude, resp.candidates[i])

\* C10 witness: two candidates tie at the minimal distance and the first is returned.
C10_Witness ==
    /\ resp.op = "getClosestRiverLevel"
    /\ Len(resp.candidates) >= 2
    /\ DistanceTo(resp.latitude, resp.candidates[1])
           = DistanceTo(resp.latitude, resp.candidates[2])
    /\ \A j \in 1 .. Len(resp.candidates) :
          DistanceTo(resp.latitude, resp.candidates[j])
              >= DistanceTo(resp.latitude, resp.candidates[1])
    /\ resp.result # NULL
    /\ resp.result[1].riverLevel = resp.candidates[1]

\* C13 (as claimed): two calls of assessFloodRisk with the same coordinates and
\* unchanged stored readings return identical results, whether or not a reading
\* lies in range.
C13_Idempotent ==
    [][(/\ resp.op = "assessFloodRisk" /\ resp'.op = "assessFloodRisk"
        /\ resp'.rev = resp.rev
        /\ resp'.latitude = resp.latitude
        /\ riverLevels' = riverLevels)
       => resp'.result = resp.result]_vars


\* C19: whenever assessFloodRisk calls predictFloodRisk the criticalThreshold it
\* passes is not null; when the closest reading has no criticalThreshold the value
\* passed is that reading's level - 5.  The call is made exactly when a reading
\* lies in range.
C19_ThresholdNeverNull ==
    (resp.op = "assessFloodRisk" /\ resp.rev = "main") =>
        /\ (resp.predictCall # NULL) <=> (resp.candidates # <<>>)
        /\ resp.predictCall # NULL =>
              /\ resp.predictCall[1].criticalThreshold # NULL
              /\ resp.result.thresholdLevel = NULL =>
                    resp.predictCall[1].criticalThreshold
                        = <<resp.result.waterLevel - 5>>
              /\ (resp.result.thresholdLevel # NULL
                     /\ resp.result.thresholdLevel[1] # 0) =>
                    resp.predictCall[1].criticalThreshold = resp.result.thresholdLevel

\* C19 witness: the closest reading has no criticalThreshold and level - 5 was passed.
C19_Witness ==
    /\ resp.op = "assessFloodRisk" /\ resp.rev = "main"
    /\ resp.predictCall # NULL
    /\ resp.result.thresholdLevel = NULL
    /\ resp.predictCall[1].criticalThreshold = <<resp.result.waterLevel - 5>>

\* C27: without the distance override, when the closest reading has no
\* criticalThreshold (null or 0), assessFloodRisk returns the risk level HIGH,
\* whatever the water level and the distance.
C27_NoThresholdHigh ==
    (/\ resp.op = "assessFloodRisk" /\ resp.rev = "main"
     /\ resp.predictCall # NULL
     /\ resp.result.thresholdLevel \in {NULL, <<0>>}) => resp.result.riskLevel = HIGH

\* C27 witness: a reading with threshold 0 and the low water level, farther than
\* 500 m from the point, rated HIGH.
C27_Witness ==
    /\ resp.op = "assessFloodRisk" /\ resp.rev = "main"
    /\ resp.predictCall # NULL
    /\ resp.result.thresholdLevel = <<0>>
    /\ resp.result.waterLevel = 3
    /\ resp.result.distance[1] >= CloseToRiver
    /\ resp.result.riskLevel = HIGH

\* ------------------------------------------------------------------ road status classifier

\* the radius of assessRoadStatus's two area queries: 5 km (mm).
RoadRiverRadius == 5000000
\* "within 200 meters of a flooded area" (mm).
UnderFloodRadius == 200000
\* "within 500 meters of a flooded area" (mm).
NearFloodRadius == 500000

roadScan_Unknown(allRiverLevels, startLat, endLat, i) ==
    IF \E k \in i .. Len(allRiverLevels) :
           /\ \/ haversine(startLat, allRiverLevels[k].latitude) < NearFloodRadius
              \/ haversine(endLat, allRiverLevels[k].latitude) < NearFloodRadius
           /\ allRiverLevels[k].level
                  > OrElse(allRiverLevels[k].criticalThreshold, 0) - Margin
    THEN NEAR_FLOOD
    ELSE "UNKNOWN"

RECURSIVE roadScan(_, _, _, _)
\* for (const river of allRiverLevels) { ... } from index i on: the first reading
\* that meets either test decides.
roadScan(allRiverLevels, startLat, endLat, i) ==
    IF i > Len(allRiverLevels) THEN SAFE
    ELSE LET river == allRiverLevels[i]
             distanceToStart == haversine(startLat, river.latitude)
             distanceToEnd == haversine(endLat, river.latitude)
         IN  IF /\ (distanceToStart < UnderFloodRadius \/ distanceToEnd < UnderFloodRadius)
                /\ river.level > OrElse(river.criticalThreshold, 0)
             THEN UNDER_FLOOD
             ELSE IF /\ (distanceToStart < NearFloodRadius
                            \/ distanceToEnd < NearFloodRadius)
                     /\ river.level > OrElse(river.criticalThreshold, 0) - Margin
             THEN NEAR_FLOOD
             ELSE roadScan(allRiverLevels, startLat, endLat, i + 1)

\* The classification of a road from the readings fetched around its two ends.
roadStatusOf(riverLevelsStart, riverLevelsEnd, startLat, endLat) ==
    LET allRiverLevels == riverLevelsStart \o riverLevelsEnd
    IN  IF Len(allRiverLevels) = 0 THEN SAFE
        ELSE roadScan(allRiverLevels, startLat, endLat, 1)

\* part_004 / floodService.ts: FloodService.assessRoadStatus, both reads at once.
assessRoadStatus(startLat, endLat) ==
    roadStatusOf(getRiverLevelsByArea(startLat, RoadRiverRadius),
                 getRiverLevelsByArea(endLat, RoadRiverRadius), startLat, endLat)

\* floodService.ts.bak: FloodService.assessRoadStatus.  With no reading around the
\* road it makes up a test river 30 % of the way from start to end, so at 0.3 and 0.7
\* of the road's length from its ends, and lets randomVal (hundredths) decide.
assessRoadStatusBak(startLat, endLat, randomVal) ==
    LET allRiverLevels == getRiverLevelsByArea(startLat, RoadRiverRadius)
                              \o getRiverLevelsByArea(endLat, RoadRiverRadius)
        length == haversine(startLat, endLat)
        within(radius) == 3 * length < 10 * radius \/ 7 * length < 10 * radius
    IN  IF Len(allRiverLevels) = 0
        THEN IF randomVal < 20 /\ within(UnderFloodRadius) THEN UNDER_FLOOD
             ELSE IF randomVal < 50 /\ within(NearFloodRadius) THEN NEAR_FLOOD
             ELSE SAFE
        ELSE roadScan(allRiverLevels, startLat, endLat, 1)

\* ------------------------------------------------------------------ inputs of the classifier

EndpointLats == {0, 1, 3, 200}

\* the draws of Math.random() for randomVal in floodService.ts.bak, in hundredths.
RandomVals == {10, 30, 70}

AssessRoadStatusCall(startLat, endLat) ==
    /\ resp' = [op |-> "assessRoadStatus", rev |-> "main",
                startLat |-> startLat, endLat |-> endLat,
                allRiverLevels |-> getRiverLevelsByArea(startLat, RoadRiverRadius)
                                     \o getRiverLevelsByArea(endLat, RoadRiverRadius),
                status |-> assessRoadStatus(startLat, endLat)]
    /\ UNCHANGED <<riverLevels, roads, reqs, accounts>>

AssessRoadStatusBakCall(startLat, endLat, randomVal) ==
    /\ resp' = [op |-> "assessRoadStatus", rev |-> "bak",
                startLat |-> startLat, endLat |-> endLat,
                allRiverLevels |-> getRiverLevelsByArea(startLat, RoadRiverRadius)
                                     \o getRiverLevelsByArea(endLat, RoadRiverRadius),
                status |-> assessRoadStatusBak(startLat, endLat, randomVal)]
    /\ UNCHANGED <<riverLevels, roads, reqs, accounts>>

InitStatus ==
    /\ riverLevels \in RiverStores(MaxRivers)
    /\ roads = <<>>
    /\ reqs = <<>>
    /\ resp = NoResp
    /\ NoAccounts

NextStatus ==
    \E startLat \in EndpointLats, endLat \in EndpointLats :
        \/ AssessRoadStatusCall(startLat, endLat)
        \/ \E randomVal \in RandomVals :
               AssessRoadStatusBakCall(startLat, endLat, randomVal)

SpecStatus == InitStatus /\ [][NextStatus]_vars

\* ------------------------------------------------------------------ claims: road status

\* The UNDER_FLOOD condition of a reading for a road, as the claim states it.
UnderCondition(reading, startLat, endLat) ==
    /\ \/ DistanceTo(startLat, reading) < 200000
       \/ DistanceTo(endLat, reading) < 200000
    /\ reading.level > (IF reading.criticalThreshold = NULL THEN 0
                        ELSE reading.criticalThreshold[1])

\* C2 (as claimed): whenever any reading of the list satisfies the UNDER_FLOOD
\* condition, assessRoadStatus returns UNDER_FLOOD, whatever the order of the list.
C2_UnderFloodAnyOrder ==
    (resp.op = "assessRoadStatus"
        /\ \E i \in 1 .. Len(resp.allRiverLevels) :
               UnderCondition(resp.allRiverLevels[i], resp.startLat, resp.endLat))
    => resp.status = UNDER_FLOOD

\* The status the claim's table gives a road for one reading.
SingleReadingStatus(reading, startLat, endLat) ==
    LET threshold == IF reading.criticalThreshold = NULL THEN 0
                     ELSE reading.criticalThreshold[1]
        closer(radius) == \/ DistanceTo(startLat, reading) < radius
                          \/ DistanceTo(endLat, reading) < radius
    IN  IF closer(200000) /\ reading.level > threshold THEN UNDER_FLOOD
        ELSE IF closer(500000) /\ reading.level > threshold - 5 THEN NEAR_FLOOD
        ELSE SAFE

\* C11 (as claimed): with no reading around the road assessRoadStatus returns SAFE;
\* with one reading it returns UNDER_FLOOD when the reading is closer than 0.2 km to
\* an end and above its threshold, else NEAR_FLOOD when closer than 0.5 km and above
\* threshold - 5, else SAFE, the threshold being 0 for a reading that has none.
C11_SingleReadingTable ==
    (resp.op = "assessRoadStatus"
        /\ \A i, j \in 1 .. Len(resp.allRiverLevels) :
               resp.allRiverLevels[i] = resp.allRiverLevels[j]) =>
        resp.status = IF resp.allRiverLevels = <<>> THEN SAFE
                      ELSE SingleReadingStatus(resp.allRiverLevels[1],
                                               resp.startLat, resp.endLat)

\* ------------------------------------------------------------------ road store

\* storage.getRoadsByArea (MemStorage and PostgresStorage agree on a meridian): the
\* roads of the store, in its order, with an end whose latitude and longitude both
\* differ from the centre's by less than radius / 111 degrees.  The centre may lie
\* half way between two millidegrees, so the query takes twice the centre's
\* latitude and twice the radius.
getRoadsByArea(latitude2, radius2) ==
    SelectSeq(roads,
              LAMBDA road :
                  \/ /\ WithinRange(Abs(2 * road.startLat - latitude2), radius2)
                     /\ WithinRange(0, radius2)
                  \/ /\ WithinRange(Abs(2 * road.endLat - latitude2), radius2)
                     /\ WithinRange(0, radius2))

\* ------------------------------------------------------------------ route composer

\* "if (minStartDist < 10)": the connector threshold, 10 km (mm).
ConnectorDistance == 10000000

\* A point of a path: its latitude and its longitude relative to the meridian.
Point(lat) == <<lat, 0>>

RouteOf_Reassessed(road) ==
    [id |-> road.id, name |-> road.name,
     status |-> assessRoadStatus(road.startLat, road.endLat),
     path |-> <<Point(road.startLat), Point(road.endLat)>>]

\* road => ({id, name, status, path})
RouteOf(road) ==
    [id |-> road.id, name |-> road.name, status |-> road.status,
     path |-> <<Point(road.startLat), Point(road.endLat)>>]

\* The map taken from the last road to the first.
RECURSIVE MapRoutes_Reversed(_)
MapRoutes_Reversed(list) ==
    IF list = <<>> THEN <<>>
    ELSE MapRoutes_Reversed(Tail(list)) \o <<RouteOf(Head(list))>>

RECURSIVE MapRoutes(_)
MapRoutes(list) ==
    IF list = <<>> THEN <<>> ELSE <<RouteOf(Head(list))>> \o MapRoutes(Tail(list))

WithStatus(list, status) == SelectSeq(list, LAMBDA road : road.status = status)

RECURSIVE connectorScan(_, _, _, _, _)
\* for (const road of candidates) { ... } from index i on; acc holds closestStartRoad,
\* minStartDist, closestEndRoad, minEndDist, a NULL distance standing for Infinity.
connectorScan(candidates, startLat, endLat, i, acc) ==
    IF i > Len(candidates) THEN acc
    ELSE LET road == candidates[i]
             distToRoadStart == haversine(startLat, road.startLat)
             distToRoadEnd == haversine(endLat, road.endLat)
             nearerStart == acc.minStartDist = NULL
                               \/ distToRoadStart < acc.minStartDist[1]
             nearerEnd == acc.minEndDist = NULL \/ distToRoadEnd < acc.minEndDist[1]
         IN  connectorScan(candidates, startLat, endLat, i + 1,
                 [closestStartRoad |-> IF nearerStart THEN road
                                       ELSE acc.closestStartRoad,
                  minStartDist |-> IF nearerStart THEN <<distToRoadStart>>
                                   ELSE acc.minStartDist,
                  closestEndRoad |-> IF nearerEnd THEN road ELSE acc.closestEndRoad,
                  minEndDist |-> IF nearerEnd THEN <<distToRoadEnd>>
                                 ELSE acc.minEndDist])

DirectRoute(startLat, endLat) ==
    [id |-> 1000, name |-> "Direct Route", status |-> SAFE,
     path |-> <<Point(startLat), Point(endLat)>>]

rankedRoutes_CautionFirst(allRoads) ==
    MapRoutes(WithStatus(allRoads, NEAR_FLOOD)) \o MapRoutes(WithStatus(allRoads, SAFE))
        \o MapRoutes(WithStatus(allRoads, UNDER_FLOOD))

\* const routes = [...safeRoads.map, ...cautionRoads.map, ...floodedRoads.map]
rankedRoutes(allRoads) ==
    MapRoutes(WithStatus(allRoads, SAFE)) \o MapRoutes(WithStatus(allRoads, NEAR_FLOOD))
        \o MapRoutes(WithStatus(allRoads, UNDER_FLOOD))

connectorCandidates_AnyRoad(allRoads) == allRoads

\* for (const road of safeRoads.length > 0 ? safeRoads : allRoads)
connectorCandidates(allRoads) ==
    IF Len(WithStatus(allRoads, SAFE)) > 0 THEN WithStatus(allRoads, SAFE) ELSE allRoads

\* getSafeRoutes once roads were found: the ranked roads and the two connectors.
composeRoutes(allRoads, startLat, endLat) ==
    LET routes == rankedRoutes(allRoads)
        found == connectorScan(connectorCandidates(allRoads), startLat, endLat, 1,
                               [closestStartRoad |-> allRoads[1], minStartDist |-> NULL,
                                closestEndRoad |-> allRoads[1], minEndDist |-> NULL])
        startConnector ==
            IF found.minStartDist # NULL /\ found.minStartDist[1] < ConnectorDistance
            THEN <<[id |-> 1001, name |-> "Start Connector", status |-> SAFE,
                    path |-> <<Point(startLat), Point(found.closestStartRoad.startLat)>>]>>
            ELSE <<>>
        endConnector ==
            IF found.minEndDist # NULL /\ found.minEndDist[1] < ConnectorDistance
            THEN <<[id |-> 1002, name |-> "End Connector", status |-> SAFE,
                    path |-> <<Point(found.closestEndRoad.endLat), Point(endLat)>>]>>
            ELSE <<>>
    IN  IF Len(routes) > 0 THEN startConnector \o routes \o endConnector ELSE routes

\* The area query of getSafeRoutes: centre (start + end) / 2, radius 1.5 * distance.
routeArea(startLat, endLat) ==
    getRoadsByArea(startLat + endLat, 3 * haversine(startLat, endLat))

\* part_004: FloodService.getSafeRoutes.
getSafeRoutes(startLat, endLat) ==
    LET allRoads == routeArea(startLat, endLat)
    IN  IF Len(allRoads) = 0 THEN <<DirectRoute(startLat, endLat)>>
        ELSE composeRoutes(allRoads, startLat, endLat)

\* isInsideCircle of generateTestRoutes for a point of the straight line from start
\* to end: the point and the centre are given in thousandths of the way, the radius
\* in two-thousandths of directDistance, directDistance in metres.
isInsideCircle(pointPermille, centerPermille, radius2, directDistance) ==
    Abs(pointPermille - centerPermille) * 2 * directDistance <= radius2 * directDistance

\* isInRiskArea for start (0) and end (1000): the HIGH area lies 30 % of the way
\* with radius 0.001 * directDistance, the MEDIUM area 70 % of the way with radius
\* 0.0015 * directDistance; NULL when in neither.
isInRiskArea(pointPermille, directDistance) ==
    IF isInsideCircle(pointPermille, 300, 2, directDistance \div 1000) THEN <<HIGH>>
    ELSE IF isInsideCircle(pointPermille, 700, 3, directDistance \div 1000)
    THEN <<MEDIUM>>
    ELSE NULL

\* getRouteStatus: every test route starts at start and ends at end; its waypoints
\* are drawn 0.005 degrees of longitude (over 0.5 km) off the line, outside both risk
\* areas for every directDistance below 300 km, unless directDistance is 0 and start
\* itself is in the HIGH area.
getRouteStatus(directDistance) ==
    IF isInRiskArea(0, directDistance) = <<HIGH>> THEN UNDER_FLOOD
    ELSE IF isInRiskArea(0, directDistance) = <<MEDIUM>> THEN NEAR_FLOOD
    ELSE IF isInRiskArea(1000, directDistance) = <<HIGH>> THEN UNDER_FLOOD
    ELSE IF isInRiskArea(1000, directDistance) = <<MEDIUM>> THEN NEAR_FLOOD
    ELSE SAFE

\* floodService.ts.bak: generateTestRoutes, for the draws of Math.random() that put
\* the midpoint on a whole millidegree.
generateTestRoutes(startLat, endLat) ==
    LET directDistance == haversine(startLat, endLat)
        mid == (startLat + endLat + 1) \div 2
        status == getRouteStatus(directDistance)
        routes ==
            << [id |-> 1000, name |-> "Direct Route", status |-> status,
                path |-> <<Point(startLat), Point(endLat)>>],
               [id |-> 1001, name |-> "Northern Route", status |-> status,
                path |-> <<Point(startLat), <<mid + 5, 5>>, Point(endLat)>>],
               [id |-> 1002, name |-> "Southern Route", status |-> status,
                path |-> <<Point(startLat), <<mid - 5, -5>>, <<mid - 7, -2>>,
                           Point(endLat)>>] >>
    IN  IF status = SAFE THEN routes
        ELSE routes \o
             << [id |-> 1003, name |-> "Safe Detour Route", status |-> SAFE,
                 path |-> <<Point(startLat), Point(endLat)>>] >>

\* floodService.ts.bak: FloodService.getSafeRoutes.
getSafeRoutesBak(startLat, endLat) ==
    LET allRoads == routeArea(startLat, endLat)
    IN  IF Len(allRoads) = 0 THEN generateTestRoutes(startLat, endLat)
        ELSE composeRoutes(allRoads, startLat, endLat)

\* ------------------------------------------------------------------ inputs of the composer

MaxRoads == 2
\* The seeded roads A to B, B to C and A to C, A at latitude 0, 0.01 degrees apart.
RoadShapes ==
    { [name |-> "A to B", startLat |-> 0, endLat |-> 10],
      [name |-> "B to C", startLat |-> 10, endLat |-> 20],
      [name |-> "A to C", startLat |-> 0, endLat |-> 20] }
RouteLats == {0, 10, 200, 202}

RoadStores(max) ==
    UNION { { [i \in 1 .. n |-> [id |-> i, name |-> f[i][1].name,
                                 startLat |-> f[i][1].startLat,
                                 endLat |-> f[i][1].endLat, status |-> f[i][2]]] :
              f \in [1 .. n -> RoadShapes \X ROAD_STATUS] } : n \in 0 .. max }

GetSafeRoutesCall_Persisting(startLat, endLat) ==
    /\ resp' = [op |-> "getSafeRoutes", rev |-> "main",
                startLat |-> startLat, endLat |-> endLat,
                allRoads |-> routeArea(startLat, endLat),
                routes |-> getSafeRoutes(startLat, endLat)]
    /\ roads' = [i \in 1 .. Len(roads) |->
                    [roads[i] EXCEPT !.status = assessRoadStatus(roads[i].startLat,
                                                                 roads[i].endLat)]]
    /\ UNCHANGED <<riverLevels, reqs, accounts>>

\* FloodService.getSafeRoutes as GET /api/safe-routes calls it: a read of the roads.
GetSafeRoutesCall(startLat, endLat) ==
    /\ resp' = [op |-> "getSafeRoutes", rev |-> "main",
                startLat |-> startLat, endLat |-> endLat,
                allRoads |-> routeArea(startLat, endLat),
                routes |-> getSafeRoutes(startLat, endLat)]
    /\ UNCHANGED <<riverLevels, roads, reqs, accounts>>

GetSafeRoutesBakCall(startLat, endLat) ==
    /\ resp' = [op |-> "getSafeRoutes", rev |-> "bak",
                startLat |-> startLat, endLat |-> endLat,
                allRoads |-> routeArea(startLat, endLat),
                routes |-> getSafeRoutesBak(startLat, endLat)]
    /\ UNCHANGED <<riverLevels, roads, reqs, accounts>>

\* leaflet-map.jsx: what fetchSafeRoutes hands to setSafeRoutes for the routes data
\* of the response: the SAFE routes when there is one, otherwise the NEAR_FLOOD
\* routes followed by the UNDER_FLOOD routes.
fetchSafeRoutes(data) ==
    LET safeRoutesOnly == SelectSeq(data, LAMBDA route : route.status = SAFE)
        cautionRoutes == SelectSeq(data, LAMBDA route : route.status = NEAR_FLOOD)
        floodedRoutes == SelectSeq(data, LAMBDA route : route.status = UNDER_FLOOD)
    IN  IF Len(safeRoutesOnly) > 0 THEN safeRoutesOnly
        ELSE cautionRoutes \o floodedRoutes

\* The map client picks a destination: GET /api/safe-routes from the user's
\* location, then fetchSafeRoutes on the answer.
FetchSafeRoutesCall(startLat, endLat) ==
    /\ resp' = [op |-> "fetchSafeRoutes",
                startLat |-> startLat, endLat |-> endLat,
                allRoads |-> routeArea(startLat, endLat),
                data |-> getSafeRoutes(startLat, endLat),
                safeRoutes |-> fetchSafeRoutes(getSafeRoutes(startLat, endLat))]
    /\ UNCHANGED <<riverLevels, roads, reqs, accounts>>

InitRoutes ==
    /\ riverLevels = <<>>
    /\ roads \in RoadStores(MaxRoads)
    /\ reqs = <<>>
    /\ resp = NoResp
    /\ NoAccounts

NextRoutes ==
    \E startLat \in RouteLats, endLat \in RouteLats :
        \/ GetSafeRoutesCall(startLat, endLat)
        \/ GetSafeRoutesBakCall(startLat, endLat)
        \/ FetchSafeRoutesCall(startLat, endLat)

SpecRoutes == InitRoutes /\ [][NextRoutes]_vars

\* ------------------------------------------------------------------ claims: route composer

Rank(status) == IF status = SAFE THEN 0 ELSE IF status = NEAR_FLOOD THEN 1 ELSE 2

IsConnector(route) == route.id \in {1001, 1002}

\* C3 (as claimed): in the list getSafeRoutes returns for fetched roads every SAFE
\* segment precedes every NEAR_FLOOD segment and every NEAR_FLOOD segment every
\* UNDER_FLOOD segment, connectors included.
C3_RankedAllSegments ==
    (resp.op = "getSafeRoutes" /\ resp.allRoads # <<>>) =>
        \A i, j \in 1 .. Len(resp.routes) :
            i < j => Rank(resp.routes[i].status) <= Rank(resp.routes[j].status)

\* C3 (amended): the road segments of the list are ranked SAFE, NEAR_FLOOD,
\* UNDER_FLOOD; a Start Connector is SAFE and first, an End Connector is SAFE and
\* last, after the NEAR_FLOOD and UNDER_FLOOD roads.
C3_RankedRoadSegments ==
    (resp.op = "getSafeRoutes" /\ resp.allRoads # <<>>) =>
        /\ \A i, j \in 1 .. Len(resp.routes) :
              (i < j /\ ~IsConnector(resp.routes[i]) /\ ~IsConnector(resp.routes[j]))
                  => Rank(resp.routes[i].status) <= Rank(resp.routes[j].status)
        /\ \A i \in 1 .. Len(resp.routes) :
              /\ resp.routes[i].id = 1001 => (i = 1 /\ resp.routes[i].status = SAFE)
              /\ resp.routes[i].id = 1002 =>
                     (i = Len(resp.routes) /\ resp.routes[i].status = SAFE)

\* C3 witness: roads of two statuses were ranked and an End Connector follows an
\* UNDER_FLOOD road.
C3_Witness ==
    /\ resp.op = "getSafeRoutes"
    /\ Len(resp.routes) >= 3
    /\ resp.routes[Len(resp.routes)].id = 1002
    /\ resp.routes[Len(resp.routes) - 1].status = UNDER_FLOOD
    /\ \E i \in 1 .. Len(resp.routes) :
          ~IsConnector(resp.routes[i]) /\ resp.routes[i].status # UNDER_FLOOD

\* C6 (as claimed): when the area query returns no road, getSafeRoutes returns
\* exactly one segment, SAFE, with path [start, end].
C6_DirectFallback ==
    (resp.op = "getSafeRoutes" /\ resp.allRoads = <<>>) =>
        /\ Len(resp.routes) = 1
        /\ resp.routes[1].status = SAFE
        /\ resp.routes[1].path = << <<resp.startLat, 0>>, <<resp.endLat, 0>> >>

\* C7: getSafeRoutes (part_004) called with start equal to end returns exactly one
\* route, SAFE, whatever roads are stored: a query of radius 0 matches no road.
C7_SamePoint ==
    (resp.op = "getSafeRoutes" /\ resp.rev = "main" /\ resp.startLat = resp.endLat) =>
        /\ Len(resp.routes) = 1
        /\ resp.routes[1].status = SAFE
        /\ resp.routes[1].id = 1000

\* C7 witness: start = end is the endpoint of a stored road, and one route came back.
C7_Witness ==
    /\ resp.op = "getSafeRoutes" /\ resp.rev = "main"
    /\ resp.startLat = resp.endLat
    /\ \E i \in 1 .. Len(roads) :
          roads[i].startLat = resp.startLat \/ roads[i].endLat = resp.startLat
    /\ Len(resp.routes) = 1

\* The segments of a route list that stand for fetched roads (the synthetic ones
\* have the ids 1000 to 1003).
IsRoadSegment(route) == route.id < 1000

\* C14 (as claimed): the status of every road segment getSafeRoutes returns equals
\* the status assessRoadStatus computes for its endpoints from the current readings.
C14_ReassessedStatus ==
    resp.op = "getSafeRoutes" =>
        \A i \in 1 .. Len(resp.routes) :
            IsRoadSegment(resp.routes[i]) =>
                resp.routes[i].status
                    = assessRoadStatus(resp.routes[i].path[1][1], resp.routes[i].path[2][1])

\* C14 (amended): the status of every road segment getSafeRoutes returns is the
\* stored status of that road as the area query fetched it, and every fetched road
\* is returned; assessRoadStatus is not consulted.
C14_StoredStatus ==
    resp.op = "getSafeRoutes" =>
        /\ \A i \in 1 .. Len(resp.routes) :
              IsRoadSegment(resp.routes[i]) =>
                  \E k \in 1 .. Len(resp.allRoads) :
                      /\ resp.allRoads[k].id = resp.routes[i].id
                      /\ resp.allRoads[k].status = resp.routes[i].status
                      /\ resp.routes[i].path = << <<resp.allRoads[k].startLat, 0>>,
                                                  <<resp.allRoads[k].endLat, 0>> >>
        /\ \A k \in 1 .. Len(resp.allRoads) :
              \E i \in 1 .. Len(resp.routes) : resp.routes[i].id = resp.allRoads[k].id

\* C14 witness: a returned road carries its stored status UNDER_FLOOD although
\* assessRoadStatus gives SAFE for it from the current readings.
C14_Witness ==
    /\ resp.op = "getSafeRoutes"
    /\ \E i \in 1 .. Len(resp.routes) :
          /\ IsRoadSegment(resp.routes[i])
          /\ resp.routes[i].status = UNDER_FLOOD
          /\ assessRoadStatus(resp.routes[i].path[1][1], resp.routes[i].path[2][1]) = SAFE


\* The candidates of the connector search, as the claim states them: the SAFE roads
\* when any exist, all fetched roads otherwise.
ConnectorCandidates(allRoads) ==
    IF \E k \in 1 .. Len(allRoads) : allRoads[k].status = SAFE
    THEN SelectSeq(allRoads, LAMBDA road : road.status = SAFE)
    ELSE allRoads

\* C15: when at least one road is fetched, the list has a Start Connector exactly
\* when the least distance from the query start to the start point of a candidate
\* is below 10 km; it is SAFE, comes first and runs from the query start to the
\* start point of a nearest candidate.  The End Connector, found independently,
\* comes last and runs from the end point of the candidate whose end point is
\* nearest the query end to the query end.
C15_Connectors ==
    (resp.op = "getSafeRoutes" /\ resp.allRoads # <<>>) =>
        LET cand == ConnectorCandidates(resp.allRoads)
            startDist(k) == 111195 * (IF cand[k].startLat < resp.startLat
                                      THEN resp.startLat - cand[k].startLat
                                      ELSE cand[k].startLat - resp.startLat)
            endDist(k) == 111195 * (IF cand[k].endLat < resp.endLat
                                    THEN resp.endLat - cand[k].endLat
                                    ELSE cand[k].endLat - resp.endLat)
            n == Len(resp.routes)
        IN  /\ (\E i \in 1 .. n : resp.routes[i].id = 1001)
                   <=> (\E k \in 1 .. Len(cand) : startDist(k) < 10000000)
            /\ (\E i \in 1 .. n : resp.routes[i].id = 1002)
                   <=> (\E k \in 1 .. Len(cand) : endDist(k) < 10000000)
            /\ \A i \in 1 .. n :
                  resp.routes[i].id = 1001 =>
                      /\ i = 1
                      /\ resp.routes[i].name = "Start Connector"
                      /\ resp.routes[i].status = SAFE
                      /\ \E k \in 1 .. Len(cand) :
                            /\ \A j \in 1 .. Len(cand) : startDist(k) <= startDist(j)
                            /\ resp.routes[i].path = << <<resp.startLat, 0>>,
                                                        <<cand[k].startLat, 0>> >>
            /\ \A i \in 1 .. n :
                  resp.routes[i].id = 1002 =>
                      /\ i = n
                      /\ resp.routes[i].name = "End Connector"
                      /\ resp.routes[i].status = SAFE
                      /\ \E k \in 1 .. Len(cand) :
                            /\ \A j \in 1 .. Len(cand) : endDist(k) <= endDist(j)
                            /\ resp.routes[i].path = << <<cand[k].endLat, 0>>,
                                                        <<resp.endLat, 0>> >>

\* C15 witness: a SAFE and a flooded road were fetched; the Start Connector leads to
\* the SAFE road although the flooded road starts nearer, and the End Connector
\* leaves from the SAFE road's end.
C15_Witness ==
    /\ resp.op = "getSafeRoutes"
    /\ Len(resp.allRoads) = 2
    /\ resp.routes[1].id = 1001
    /\ resp.routes[Len(resp.routes)].id = 1002
    /\ \E k, f \in 1 .. 2 :
          /\ resp.allRoads[k].status = SAFE
          /\ resp.allRoads[f].status = UNDER_FLOOD
          /\ resp.allRoads[f].startLat = resp.startLat
          /\ resp.allRoads[k].startLat # resp.startLat
          /\ resp.routes[1].path[2] = <<resp.allRoads[k].startLat, 0>>



\* C25: when roads were fetched for the route request and none of them has status
\* SAFE, the map client displays the NEAR_FLOOD routes of the response followed by
\* its UNDER_FLOOD routes.
C25_CautionShownWithoutSafe ==
    (/\ resp.op = "fetchSafeRoutes"
     /\ Len(resp.allRoads) > 0
     /\ \A k \in DOMAIN resp.allRoads : resp.allRoads[k].status # SAFE)
    => /\ resp.safeRoutes =
              SelectSeq(resp.data, LAMBDA route : route.status = NEAR_FLOOD)
                  \o SelectSeq(resp.data, LAMBDA route : route.status = UNDER_FLOOD)
       /\ Len(resp.safeRoutes) = Len(resp.allRoads)


\* The positions in routes of the route with the id of road.
PositionsOf(routes, road) == { i \in DOMAIN routes : routes[i].id = road.id }

\* C26: every road the area fetch of getSafeRoutes returned appears exactly once in
\* the returned list, with its own id, name, status and path from its start to its
\* end, and two fetched roads of equal status appear in the order of the fetch.
C26_EachRoadOnce ==
    (resp.op = "getSafeRoutes" /\ resp.rev = "main") =>
        /\ \A k \in DOMAIN resp.allRoads :
              /\ Cardinality(PositionsOf(resp.routes, resp.allRoads[k])) = 1
              /\ \A i \in PositionsOf(resp.routes, resp.allRoads[k]) :
                    resp.routes[i] =
                        [id |-> resp.allRoads[k].id,
                         name |-> resp.allRoads[k].name,
                         status |-> resp.allRoads[k].status,
                         path |-> << <<resp.allRoads[k].startLat, 0>>,
                                     <<resp.allRoads[k].endLat, 0>> >>]
        /\ \A k \in DOMAIN resp.allRoads, l \in DOMAIN resp.allRoads :
              (k < l /\ resp.allRoads[k].status = resp.allRoads[l].status) =>
                  \A i \in PositionsOf(resp.routes, resp.allRoads[k]),
                     j \in PositionsOf(resp.routes, resp.allRoads[l]) : i < j

\* Two roads of equal status and different shape were fetched and returned between
\* the two connectors.
C26_Witness ==
    /\ resp.op = "getSafeRoutes"
    /\ resp.rev = "main"
    /\ Len(resp.allRoads) = 2
    /\ resp.allRoads[1].status = resp.allRoads[2].status
    /\ resp.allRoads[1].name # resp.allRoads[2].name
    /\ Len(resp.routes) = 4
    /\ resp.routes[2].id = 1
    /\ resp.routes[3].id = 2

\* ------------------------------------------------------------------ GET /api/roads

\* The requests that can be in flight together.  The exported storage is the
\* PostgresStorage, so every await of the handler is a point where another request or
\* a writer of the river readings can run.
RequestIds == {1, 2}

Idle == [state |-> "idle"]

\* The roads and readings of the handler's runs: the seeded roads A to B and B to C,
\* and one reading at A whose level is rewritten while the server runs.
HandlerRoads ==
    { << [id |-> 1, name |-> "A to B", startLat |-> 0, endLat |-> 10, status |-> s1],
         [id |-> 2, name |-> "B to C", startLat |-> 10, endLat |-> 20, status |-> s2] >> :
      s1 \in {SAFE, UNDER_FLOOD}, s2 \in {SAFE} }
HandlerReadings ==
    { << [id |-> 1, latitude |-> 0, level |-> l, criticalThreshold |-> <<10>>] >> :
      l \in Levels }
\* latitude and radius (mm) of the query strings.
RoadQueries == { <<0, 1000000>>, <<0, 5000000>>, <<200, 1000000>> }

\* The coordinates of the other requests served meanwhile: POST /api/locations
\* (assessFloodRisk) at A or far away, GET /api/safe-routes (getSafeRoutes) and
\* assessRoadStatus from A to B, from B to A or far away.
ServiceLats == {0, 200}
ServiceRoutes == { <<0, 10>>, <<10, 0>>, <<200, 200>> }

updateRoadStatus_Dropped(id, status) == roads

\* storage.updateRoadStatus(id, status)
updateRoadStatus(id, status) ==
    IF id \in 1 .. Len(roads) THEN [roads EXCEPT ![id].status = status] ELSE roads

\* if (!req.isAuthenticated()) return res.sendStatus(401); a missing or unparsable
\* parameter: res.status(400).
RoadsRejected(authenticated, validQuery) ==
    /\ ~authenticated \/ ~validQuery
    /\ resp' = [op |-> "GET /api/roads", status |-> IF ~authenticated THEN 401 ELSE 400]
    /\ UNCHANGED <<riverLevels, roads, reqs, accounts>>

\* const roads = await storage.getRoadsByArea(lat, lng, rad); res.json(roads);
\* roads.map(async road => ...) starts one task per road, each up to its first await
\* inside assessRoadStatus.  changed and raced keep for the observer whether a
\* reading was rewritten, and whether another request ran, during this request.
RoadsQuery(r, latitude, radius) ==
    /\ reqs[r].state = "idle"
    /\ LET found == getRoadsByArea(2 * latitude, 2 * radius)
           others == {o \in RequestIds : o # r /\ reqs[o].state = "running"}
       IN  /\ reqs' = [o \in RequestIds |->
                          IF o = r
                          THEN [state |-> "running", roads |-> found, changed |-> FALSE,
                                raced |-> others # {},
                                tasks |-> [i \in 1 .. Len(found) |->
                                              [pc |-> "awaitStart",
                                               riverLevelsStart |-> <<>>,
                                               status |-> NULL]]]
                          ELSE IF o \in others THEN [reqs[o] EXCEPT !.raced = TRUE]
                          ELSE reqs[o]]
           /\ resp' = [op |-> "GET /api/roads", status |-> 200, body |-> found]
    /\ UNCHANGED <<riverLevels, roads, accounts>>

\* assessRoadStatus: const riverLevelsStart = await storage.getRiverLevelsByArea(start)
ReadStart(r, i) ==
    /\ reqs[r].state = "running"
    /\ i \in 1 .. Len(reqs[r].roads)
    /\ reqs[r].tasks[i].pc = "awaitStart"
    /\ reqs' = [reqs EXCEPT ![r].tasks[i] =
                   [pc |-> "awaitEnd",
                    riverLevelsStart |->
                        getRiverLevelsByArea(reqs[r].roads[i].startLat, RoadRiverRadius),
                    status |-> NULL]]
    /\ UNCHANGED <<riverLevels, roads, resp, accounts>>

ReadEnd_AlwaysWrite(r, i) ==
    /\ reqs[r].state = "running"
    /\ i \in 1 .. Len(reqs[r].roads)
    /\ reqs[r].tasks[i].pc = "awaitEnd"
    /\ LET road == reqs[r].roads[i]
           status == roadStatusOf(reqs[r].tasks[i].riverLevelsStart,
                                  getRiverLevelsByArea(road.endLat, RoadRiverRadius),
                                  road.startLat, road.endLat)
       IN  reqs' = [reqs EXCEPT ![r].tasks[i] =
                       [pc |-> "awaitUpdate", riverLevelsStart |-> <<>>,
                        status |-> <<status>>]]
    /\ UNCHANGED <<riverLevels, roads, resp, accounts>>

\* assessRoadStatus: const riverLevelsEnd = await storage.getRiverLevelsByArea(end), the
\* scan of the readings, and back in the handler: if (status !== road.status) the call
\* of storage.updateRoadStatus, against the status of the road as it was fetched.
ReadEnd(r, i) ==
    /\ reqs[r].state = "running"
    /\ i \in 1 .. Len(reqs[r].roads)
    /\ reqs[r].tasks[i].pc = "awaitEnd"
    /\ LET road == reqs[r].roads[i]
           status == roadStatusOf(reqs[r].tasks[i].riverLevelsStart,
                                  getRiverLevelsByArea(road.endLat, RoadRiverRadius),
                                  road.startLat, road.endLat)
       IN  reqs' = [reqs EXCEPT ![r].tasks[i] =
                       [pc |-> IF status # road.status THEN "awaitUpdate" ELSE "done",
                        riverLevelsStart |-> <<>>,
                        status |-> <<status>>]]
    /\ UNCHANGED <<riverLevels, roads, resp, accounts>>

\* await storage.updateRoadStatus(road.id, status): the write reaches the store.
WriteStatus(r, i) ==
    /\ reqs[r].state = "running"
    /\ i \in 1 .. Len(reqs[r].roads)
    /\ reqs[r].tasks[i].pc = "awaitUpdate"
    /\ roads' = updateRoadStatus(reqs[r].roads[i].id, reqs[r].tasks[i].status[1])
    /\ reqs' = [reqs EXCEPT ![r].tasks[i].pc = "done"]
    /\ UNCHANGED <<riverLevels, resp, accounts>>

\* await Promise.all(...) resolves: the request has run to completion.  resp keeps
\* what an observer sees at that moment: the roads the query returned, whether a
\* reading was rewritten during the request, the roads as stored, and the status
\* assessRoadStatus computes for each from the readings as they are.
RoadsSettled(r) ==
    /\ reqs[r].state = "running"
    /\ \A i \in 1 .. Len(reqs[r].roads) : reqs[r].tasks[i].pc = "done"
    /\ resp' = [op |-> "GET /api/roads settled",
                changed |-> reqs[r].changed,
                raced |-> reqs[r].raced,
                body |-> reqs[r].roads,
                stored |-> [i \in 1 .. Len(reqs[r].roads) |->
                               roads[reqs[r].roads[i].id].status],
                assessed |-> [i \in 1 .. Len(reqs[r].roads) |->
                                 assessRoadStatus(reqs[r].roads[i].startLat,
                                                  reqs[r].roads[i].endLat)]]
    /\ reqs' = [reqs EXCEPT ![r] = Idle]
    /\ UNCHANGED <<riverLevels, roads, accounts>>

\* storage.updateRiverLevel(id, level), called by whatever feeds the readings.
UpdateRiverLevel(id, level) ==
    /\ id \in 1 .. Len(riverLevels)
    /\ riverLevels' = [riverLevels EXCEPT ![id].level = level]
    /\ reqs' = [r \in RequestIds |->
                   IF reqs[r].state = "running"
                   THEN [reqs[r] EXCEPT !.changed = TRUE] ELSE reqs[r]]
    /\ resp' = [op |-> "updateRiverLevel", id |-> id, level |-> level]
    /\ UNCHANGED <<roads, accounts>>

Init ==
    /\ riverLevels \in HandlerReadings
    /\ roads \in HandlerRoads
    /\ reqs = [r \in RequestIds |-> Idle]
    /\ resp = NoResp
    /\ NoAccounts

Next ==
    \/ \E authenticated \in BOOLEAN, validQuery \in BOOLEAN :
           RoadsRejected(authenticated, validQuery)
    \/ \E r \in RequestIds, q \in RoadQueries : RoadsQuery(r, q[1], q[2])
    \/ \E r \in RequestIds, i \in 1 .. MaxRoads :
           ReadStart(r, i) \/ ReadEnd(r, i) \/ WriteStatus(r, i)
    \/ \E r \in RequestIds : RoadsSettled(r)
    \/ \E id \in 1 .. MaxRivers, level \in Levels : UpdateRiverLevel(id, level)
    \/ \E lat \in ServiceLats : AssessFloodRiskCall(lat)
    \/ \E route \in ServiceRoutes :
           \/ AssessRoadStatusCall(route[1], route[2])
           \/ GetSafeRoutesCall(route[1], route[2])

Spec == Init /\ [][Next]_vars

\* ------------------------------------------------------------------ claims: GET /api/roads

\* C5 (as claimed): when a GET /api/roads request has run to completion and no
\* reading was rewritten during the request, every road the query returned has a
\* stored status equal to the status assessRoadStatus computes from the current
\* readings.
C5_FreshAfterQuery ==
    (resp.op = "GET /api/roads settled" /\ ~resp.changed) =>
        \A i \in 1 .. Len(resp.body) : resp.stored[i] = resp.assessed[i]

\* C12: risk level and road status are closed enumerations: assessFloodRisk returns
\* a riskLevel in {HIGH, MEDIUM, LOW}, assessRoadStatus (also inside the running
\* GET /api/roads requests) a status in {SAFE, NEAR_FLOOD, UNDER_FLOOD}, and the
\* stored road statuses, which start in that set, stay in it whatever requests run.
C12_ClosedEnumerations ==
    /\ \A i \in 1 .. Len(roads) : roads[i].status \in ROAD_STATUS
    /\ \A r \in RequestIds :
          reqs[r].state = "running" =>
              \A i \in 1 .. Len(reqs[r].roads) :
                  reqs[r].tasks[i].status # NULL =>
                      reqs[r].tasks[i].status[1] \in ROAD_STATUS
    /\ resp.op = "assessFloodRisk" => resp.result.riskLevel \in RISK_LEVELS
    /\ resp.op = "assessRoadStatus" => resp.status \in ROAD_STATUS
    /\ resp.op = "getSafeRoutes" =>
          \A i \in 1 .. Len(resp.routes) : resp.routes[i].status \in ROAD_STATUS

\* C12 witness: a request has completed after writing a status that differs from
\* the one it fetched.
C12_Witness ==
    /\ resp.op = "GET /api/roads settled"
    /\ \E i \in 1 .. Len(resp.body) :
          resp.stored[i] # resp.body[i].status /\ resp.stored[i] = resp.assessed[i]

QuietUpdateRiverLevel(id, level) ==
    /\ \A r \in RequestIds : reqs[r].state = "idle"
    /\ UpdateRiverLevel(id, level)

\* The requests of the handler, the river readings rewritten only while no request
\* is running.
NextRace ==
    \/ \E r \in RequestIds, q \in RoadQueries : RoadsQuery(r, q[1], q[2])
    \/ \E r \in RequestIds, i \in 1 .. MaxRoads :
           ReadStart(r, i) \/ ReadEnd(r, i) \/ WriteStatus(r, i)
    \/ \E r \in RequestIds : RoadsSettled(r)
    \/ \E id \in 1 .. MaxRivers, level \in Levels : QuietUpdateRiverLevel(id, level)

SpecRace == Init /\ [][NextRace]_vars

\* C16: with the river readings unchanged while the requests run, once all
\* GET /api/roads requests have completed, the stored status of every road the last
\* one covered equals the status assessRoadStatus computes from the current
\* readings, whichever request wrote last.
C16_RaceBenign ==
    (resp.op = "GET /api/roads settled" /\ \A r \in RequestIds : reqs[r].state = "idle")
        => \A i \in 1 .. Len(resp.body) :
               roads[resp.body[i].id].status
                   = assessRoadStatus(resp.body[i].startLat, resp.body[i].endLat)

\* C16 witness: all requests have completed, the last one overlapped another one,
\* and the road it covered was rewritten while they ran.
C16_Witness ==
    /\ resp.op = "GET /api/roads settled"
    /\ resp.raced
    /\ \A r \in RequestIds : reqs[r].state = "idle"
    /\ \E i \in 1 .. Len(resp.body) :
          roads[resp.body[i].id].status # resp.body[i].status

\* C18: in the GET /api/roads handler updateRoadStatus is issued for a road only
\* when the status just computed differs from the road's status as fetched; when
\* they are equal the task ends without a write and the stored roads stay as they are.
C18_WriteOnlyOnChange ==
    [][/\ \A r \in RequestIds :
             (reqs[r].state = "running" /\ reqs'[r].state = "running") =>
                 \A i \in 1 .. Len(reqs[r].roads) :
                     /\ (reqs[r].tasks[i].pc = "awaitEnd"
                            /\ reqs'[r].tasks[i].pc = "awaitUpdate")
                        => reqs'[r].tasks[i].status[1] # reqs[r].roads[i].status
                     /\ (reqs[r].tasks[i].pc = "awaitEnd" /\ reqs'[r].tasks[i].pc = "done")
                        => /\ reqs'[r].tasks[i].status[1] = reqs[r].roads[i].status
                           /\ roads' = roads
       /\ roads' # roads
          => \E r \in RequestIds :
                /\ reqs[r].state = "running"
                /\ \E i \in 1 .. Len(reqs[r].roads) :
                      /\ reqs[r].tasks[i].pc = "awaitUpdate"
                      /\ reqs[r].tasks[i].status[1] # reqs[r].roads[i].status
                      /\ roads' = [roads EXCEPT ![reqs[r].roads[i].id].status =
                                                    reqs[r].tasks[i].status[1]]]_vars

\* C18 witness: a task has ended without a write, its computed status being the
\* status of the road as fetched.
C18_Witness ==
    \E r \in RequestIds :
        /\ reqs[r].state = "running"
        /\ \E i \in 1 .. Len(reqs[r].roads) :
              /\ reqs[r].tasks[i].pc = "done"
              /\ reqs[r].tasks[i].status = <<reqs[r].roads[i].status>>
              /\ roads[reqs[r].roads[i].id].status = reqs[r].roads[i].status

\* ------------------------------------------------------------------ failing store reads

\* The two ways an async function ends: its promise rejects with the error thrown
\* inside it, or resolves with the value it returned.
Rejected(error) == [rejected |-> TRUE, error |-> error]
Resolved(value) == [rejected |-> FALSE, value |-> value]

assessFloodRiskAsync_Swallow(latitude, readFails) ==
    IF readFails
    THEN Resolved([riskLevel |-> LOW, waterLevel |-> 0, thresholdLevel |-> <<0>>,
                   distance |-> NULL, riverName |-> NULL])
    ELSE Resolved(assessFloodRisk(latitude))

\* assessFloodRisk awaits getClosestRiverLevel, which awaits
\* storage.getRiverLevelsByArea; neither has a try / catch, so the rejection of the
\* read is the rejection of the call.
assessFloodRiskAsync(latitude, readFails) ==
    IF readFails THEN Rejected("getRiverLevelsByArea")
    ELSE Resolved(assessFloodRisk(latitude))

\* assessRoadStatus awaits the read around the start, then the read around the end.
assessRoadStatusAsync(startLat, endLat, startFails, endFails) ==
    IF startFails THEN Rejected("getRiverLevelsByArea(start)")
    ELSE IF endFails THEN Rejected("getRiverLevelsByArea(end)")
    ELSE Resolved(assessRoadStatus(startLat, endLat))

\* getSafeRoutes awaits storage.getRoadsByArea before anything else.
getSafeRoutesAsync(startLat, endLat, readFails) ==
    IF readFails THEN Rejected("getRoadsByArea")
    ELSE Resolved(getSafeRoutes(startLat, endLat))

AssessFloodRiskAwait(lat, readFails) ==
    /\ resp' = [op |-> "await assessFloodRisk",
                failed |-> IF readFails THEN <<"getRiverLevelsByArea">> ELSE NULL,
                expected |-> assessFloodRisk(lat),
                outcome |-> assessFloodRiskAsync(lat, readFails)]
    /\ UNCHANGED <<riverLevels, roads, reqs, accounts>>

AssessRoadStatusAwait(startLat, endLat, startFails, endFails) ==
    /\ resp' = [op |-> "await assessRoadStatus",
                failed |-> IF startFails THEN <<"getRiverLevelsByArea(start)">>
                           ELSE IF endFails THEN <<"getRiverLevelsByArea(end)">>
                           ELSE NULL,
                expected |-> assessRoadStatus(startLat, endLat),
                outcome |-> assessRoadStatusAsync(startLat, endLat, startFails, endFails)]
    /\ UNCHANGED <<riverLevels, roads, reqs, accounts>>

GetSafeRoutesAwait(startLat, endLat, readFails) ==
    /\ resp' = [op |-> "await getSafeRoutes",
                failed |-> IF readFails THEN <<"getRoadsByArea">> ELSE NULL,
                expected |-> getSafeRoutes(startLat, endLat),
                outcome |-> getSafeRoutesAsync(startLat, endLat, readFails)]
    /\ UNCHANGED <<riverLevels, roads, reqs, accounts>>

InitFail ==
    /\ riverLevels \in RiverStores(MaxRivers)
    /\ roads \in HandlerRoads
    /\ reqs = <<>>
    /\ resp = NoResp
    /\ NoAccounts

NextFail ==
    \/ \E lat \in ServiceLats, readFails \in BOOLEAN : AssessFloodRiskAwait(lat, readFails)
    \/ \E route \in ServiceRoutes, startFails \in BOOLEAN, endFails \in BOOLEAN :
           AssessRoadStatusAwait(route[1], route[2], startFails, endFails)
    \/ \E route \in ServiceRoutes, readFails \in BOOLEAN :
           GetSafeRoutesAwait(route[1], route[2], readFails)

SpecFail == InitFail /\ [][NextFail]_vars

\* C20: when a store read fails, assessFloodRisk, assessRoadStatus and getSafeRoutes
\* fail towards their caller with the error of the first read that failed; none
\* resolves with a default LOW assessment, a SAFE status or a direct route in its
\* place.  With no failure they resolve with their ordinary result.
C20_ErrorsPropagate ==
    resp.op \in {"await assessFloodRisk", "await assessRoadStatus", "await getSafeRoutes"}
        => /\ resp.failed # NULL =>
                 (resp.outcome.rejected /\ resp.outcome.error = resp.failed[1])
           /\ resp.failed = NULL =>
                 (~resp.outcome.rejected /\ resp.outcome.value = resp.expected)

\* C20 witness: the read of the readings failed while the store holds a reading
\* that gives a risk above LOW; the call was rejected.
C20_Witness ==
    /\ resp.op = "await assessFloodRisk"
    /\ resp.failed = <<"getRiverLevelsByArea">>
    /\ resp.expected.riskLevel # LOW
    /\ resp.outcome.rejected

\* ------------------------------------------------------------------ claims: response of GET /api/roads

\* C21 (as claimed): the roads sent in the response to GET /api/roads carry, for
\* every road, the status assessRoadStatus computes from the readings current at
\* that request.
C21_ResponseReassessed ==
    (resp.op = "GET /api/roads" /\ resp.status = 200) =>
        \A i \in 1 .. Len(resp.body) :
            resp.body[i].status
                = assessRoadStatus(resp.body[i].startLat, resp.body[i].endLat)

\* ------------------------------------------------------------------ distance primitive

\* The haversine formula for two points a few hundredths of a degree apart, in
\* fixed point.  Coordinates are in millidegrees; with k = pi / 180000 radians per
\* millidegree and small differences,
\*     a = sin(dlat / 2) ** 2 + cos(lat1Rad) * cos(lat2Rad) * sin(dlon / 2) ** 2
\*       = (k / 2) ** 2 * (dlat ** 2 + cos(lat1Rad) * cos(lat2Rad) * dlon ** 2)
\* and R * c = R * 2 * sqrt(a), R * k being 111195 mm per millidegree.

\* Math.cos of a latitude, in ten-thousandths: 1 - x ** 2 / 2 for x = k * lat.
cosOf(lat) == 10000 - (lat * lat) \div 656560

RECURSIVE sqrtBetween(_, _, _)
\* The largest r in lo .. hi with r * r <= n, by bisection.
sqrtBetween(n, lo, hi) ==
    IF lo = hi THEN lo
    ELSE LET mid == (lo + hi + 1) \div 2
         IN  IF mid * mid <= n THEN sqrtBetween(n, mid, hi)
             ELSE sqrtBetween(n, lo, mid - 1)

\* Math.sqrt, rounded down.
sqrtOf(n) == sqrtBetween(n, 0, 40000)

haversineDistance_OneCosine(lat1, lon1, lat2, lon2) ==
    LET dlat == lat2 - lat1
        dlon == lon2 - lon1
        a == dlat * dlat * 1000000
                 + ((cosOf(lat1) * cosOf(lat1)) \div 100) * (dlon * dlon)
        c == sqrtOf(a)
    IN  (MmPerMilliDegree \div 1000) * c + ((MmPerMilliDegree % 1000) * c) \div 1000

\* part_004: haversine; leaflet-map.jsx: haversineDistance.  The result is in mm;
\* a is kept in units of (k / 2) ** 2 / 10 ** 6 and c in thousandths of k.
haversineDistance(lat1, lon1, lat2, lon2) ==
    LET dlat == lat2 - lat1
        dlon == lon2 - lon1
        a == dlat * dlat * 1000000
                 + ((cosOf(lat1) * cosOf(lat2)) \div 100) * (dlon * dlon)
        c == sqrtOf(a)
    IN  (MmPerMilliDegree \div 1000) * c + ((MmPerMilliDegree % 1000) * c) \div 1000

\* The points the distance is taken between: the ends A, B, C of the seeded roads
\* and a point next to A, as <<latitude, longitude>> in millidegrees.
GeoLats == {17385, 17386, 17395, 17405}
GeoLongs == {78487, 78497, 78507}
GeoPoints == GeoLats \X GeoLongs

HaversineCall(a, b) ==
    /\ resp' = [op |-> "haversine", a |-> a, b |-> b,
                distance |-> haversineDistance(a[1], a[2], b[1], b[2]),
                reverse |-> haversineDistance(b[1], b[2], a[1], a[2]),
                self |-> haversineDistance(a[1], a[2], a[1], a[2])]
    /\ UNCHANGED <<riverLevels, roads, reqs, accounts>>

InitGeo ==
    /\ riverLevels = <<>>
    /\ roads = <<>>
    /\ reqs = <<>>
    /\ resp = NoResp
    /\ NoAccounts

NextGeo == \E a \in GeoPoints, b \in GeoPoints : HaversineCall(a, b)

SpecGeo == InitGeo /\ [][NextGeo]_vars

\* C22: haversine(a, a) = 0 and haversine(a, b) = haversine(b, a) for all
\* coordinates a and b.
C22_ZeroAndSymmetric ==
    resp.op = "haversine" =>
        /\ resp.self = 0
        /\ resp.distance = resp.reverse
        /\ resp.a # resp.b => resp.distance > 0

\* C22 witness: two points that differ in latitude and in longitude, at the same
\* positive distance in both directions.
C22_Witness ==
    /\ resp.op = "haversine"
    /\ resp.a[1] # resp.b[1] /\ resp.a[2] # resp.b[2]
    /\ resp.distance > 0
    /\ resp.distance = resp.reverse


\* ------------------------------------------------------------------ accounts: the store

\* The window of the recent-alert check of POST /api/locations, in minutes.
FiveMinutes == 5
\* The latitude of the location that signup and login create, in millidegrees.
DefaultLatitude == 12972
\* Its longitude, in millidegrees.
DefaultLongitude == 77595

\* JavaScript truthiness of a nullable number: undefined and 0 are falsy.
Truthy(v) == v # NULL /\ v[1] # 0

\* MemStorage.getUserByUsername.
getUserByUsername(username) ==
    LET found == SelectSeq(users, LAMBDA user : user.username = username)
    IN  IF found = <<>> THEN NULL ELSE <<found[1]>>

\* MemStorage.getUserByEmail.
getUserByEmail(email) ==
    LET found == SelectSeq(users, LAMBDA user : user.email = email)
    IN  IF found = <<>> THEN NULL ELSE <<found[1]>>

\* MemStorage.createUser: the store after the insert; the new user is its last
\* element.  receiveAlerts ?? true.
createUser(insertUser) ==
    Append(users, [id |-> Len(users) + 1,
                   username |-> insertUser.username,
                   email |-> insertUser.email,
                   password |-> insertUser.password,
                   receiveAlerts |-> IF insertUser.receiveAlerts = NULL THEN TRUE
                                     ELSE insertUser.receiveAlerts[1]])

\* MemStorage.getLocationsByUserId.
getLocationsByUserId(userId) ==
    SelectSeq(locations, LAMBDA location : location.userId = userId)

\* MemStorage.createLocation: the store after the insert.  isHome ?? false.
createLocation(insertLocation) ==
    Append(locations, [id |-> Len(locations) + 1,
                       userId |-> insertLocation.userId,
                       latitude |-> insertLocation.latitude,
                       longitude |-> insertLocation.longitude,
                       isHome |-> insertLocation.isHome,
                       lastUpdated |-> now])

\* MemStorage.createFloodRisk: the store after the insert.
createFloodRisk(insertRisk) ==
    Append(floodRisks, [id |-> Len(floodRisks) + 1,
                        userId |-> insertRisk.userId,
                        locationId |-> insertRisk.locationId,
                        riskLevel |-> insertRisk.riskLevel,
                        waterLevel |-> insertRisk.waterLevel,
                        thresholdLevel |-> insertRisk.thresholdLevel,
                        timestamp |-> now])

\* MemStorage.getAlert.
getAlert(store, id) == IF id \in DOMAIN store THEN <<store[id]>> ELSE NULL

\* MemStorage.createAlert: the store after the insert; isRead false, createdAt now.
createAlert(store, insertAlert) ==
    Append(store, [id |-> Len(store) + 1,
                   userId |-> insertAlert.userId,
                   riskLevel |-> insertAlert.riskLevel,
                   isRead |-> FALSE,
                   createdAt |-> now])

\* The sort of getAlertsByUserId: newest first, equal times in store order.
RECURSIVE newestFirst(_)
newestFirst(list) ==
    IF list = <<>> THEN <<>>
    ELSE LET rest == newestFirst(Tail(list))
             ahead == SelectSeq(rest, LAMBDA a : a.createdAt > Head(list).createdAt)
             behind == SelectSeq(rest, LAMBDA a : a.createdAt <= Head(list).createdAt)
         IN  ahead \o <<Head(list)>> \o behind

\* MemStorage.getAlertsByUserId.
getAlertsByUserId(store, userId) ==
    newestFirst(SelectSeq(store, LAMBDA alert : alert.userId = userId))

\* MemStorage.markAlertAsRead / PostgresStorage.markAlertAsRead: the store after
\* the update; a missing id changes nothing.
markAlertAsRead(store, id) ==
    IF id \in DOMAIN store THEN [store EXCEPT ![id].isRead = TRUE] ELSE store


\* ------------------------------------------------------------------ accounts: signup, login, logout

\* hashPassword: the scrypt digest of the password; the random salt is stored next
\* to the digest and only makes equal passwords hash differently.
hashPassword(password) == <<"scrypt", password>>

\* comparePasswords(supplied, stored).
comparePasswords(supplied, stored) == hashPassword(supplied) = stored

\* req.isAuthenticated().
isAuthenticated == session.user # NULL

\* auth.ts: shouldSendEmail(req, actionType), its return value.
shouldSendEmail(sess, actionType) ==
    sess.lastAlertType = NULL \/ sess.lastAlertType[1] # actionType

\* auth.ts: shouldSendEmail(req, actionType), the session it leaves: lastAlertType
\* is written when it returns true and already equals actionType otherwise.
sessionAfterShouldSendEmail(sess, actionType) ==
    IF shouldSendEmail(sess, actionType)
    THEN [sess EXCEPT !.lastAlertType = <<actionType>>]
    ELSE sess

\* inputs of the account requests
MaxAlerts == 3
MaxTime == 5
MaxSessions == 2
Usernames == {"ann", "bob"}
Passwords == {"pw", "bad"}
\* The signup bodies: ann with alerts on by default, bob with alerts disabled, and
\* a second bob who gives ann's email address.
SignupBodies ==
    { [username |-> "ann", password |-> "pw", email |-> "ann@example.org",
       receiveAlerts |-> NULL],
      [username |-> "bob", password |-> "pw", email |-> "bob@example.org",
       receiveAlerts |-> <<FALSE>>],
      [username |-> "bob", password |-> "pw", email |-> "ann@example.org",
       receiveAlerts |-> NULL] }
\* latitude and longitude of a POST /api/locations body: both numbers, the
\* latitude 0, the longitude 0, the latitude absent.
LocationBodies == { <<<<3>>, <<DefaultLongitude>>>>, <<<<0>>, <<DefaultLongitude>>>>,
                    <<<<3>>, <<0>>>>, <<NULL, <<DefaultLongitude>>>> }
\* the :id of POST /api/alerts/:id/read after parseInt; NULL is NaN.
AlertParams == {NULL} \cup {<<i>> : i \in 1 .. MaxAlerts + 1}
\* minutes between two requests
TickSteps == {FiveMinutes}
\* The river readings of the store.
AccountReadings ==
    { << [id |-> 1, latitude |-> 0, level |-> 12, criticalThreshold |-> <<10>>] >> }

\* The part signup and login share once the user is logged in on the session and
\* users2, locations2 are the stores with the user and the location userLocation:
\* assessFloodRisk, createFloodRisk, createAlert, then sendFloodAlert when
\* shouldSendEmail(req, actionType) says so.
AlertOnEntry(op, status, actionType, user, userLocation, users2, locations2) ==
    LET riskAssessment == assessFloodRisk(userLocation.latitude)
        loggedIn == [session EXCEPT !.user = <<user.id>>]
    IN  /\ Len(alerts) < MaxAlerts
        /\ users' = users2
        /\ locations' = locations2
        /\ floodRisks' = createFloodRisk([userId |-> user.id,
                                          locationId |-> userLocation.id,
                                          riskLevel |-> riskAssessment.riskLevel,
                                          waterLevel |-> riskAssessment.waterLevel,
                                          thresholdLevel |-> riskAssessment.thresholdLevel])
        /\ alerts' = createAlert(alerts, [userId |-> user.id,
                                          riskLevel |-> riskAssessment.riskLevel])
        /\ session' = sessionAfterShouldSendEmail(loggedIn, actionType)
        /\ outbox' = IF shouldSendEmail(loggedIn, actionType)
                     THEN Append(outbox, [to |-> user.email,
                                          riskLevel |-> riskAssessment.riskLevel,
                                          actionType |-> actionType,
                                          sessionId |-> session.id])
                     ELSE outbox
        /\ resp' = [op |-> op, status |-> status, userId |-> user.id,
                    shouldSendEmail |-> shouldSendEmail(loggedIn, actionType)]
        /\ UNCHANGED <<riverLevels, roads, reqs, now>>

\* auth.ts: POST /api/register.
Register(username, password, email, receiveAlerts) ==
    IF getUserByUsername(username) # NULL \/ getUserByEmail(email) # NULL
    THEN /\ resp' = [op |-> "POST /api/register", status |-> 400, userId |-> 0,
                     shouldSendEmail |-> FALSE]
         /\ UNCHANGED <<riverLevels, roads, reqs, accounts>>
    ELSE LET users2 == createUser([username |-> username,
                                   password |-> hashPassword(password),
                                   email |-> email,
                                   receiveAlerts |-> receiveAlerts])
             user == users2[Len(users2)]
             locations2 == createLocation([userId |-> user.id,
                                           latitude |-> DefaultLatitude,
                                           longitude |-> DefaultLongitude,
                                           isHome |-> TRUE])
         IN  AlertOnEntry("POST /api/register", 201, "signup", user,
                          locations2[Len(locations2)], users2, locations2)

\* auth.ts: POST /api/login behind passport.authenticate("local").
Login(username, password) ==
    LET found == getUserByUsername(username)
    IN  IF found = NULL \/ ~comparePasswords(password, found[1].password)
        THEN /\ resp' = [op |-> "POST /api/login", status |-> 401, userId |-> 0,
                         shouldSendEmail |-> FALSE]
             /\ UNCHANGED <<riverLevels, roads, reqs, accounts>>
        ELSE LET user == found[1]
                 userLocations == getLocationsByUserId(user.id)
                 locations2 == IF userLocations = <<>>
                               THEN createLocation([userId |-> user.id,
                                                    latitude |-> DefaultLatitude,
                                                    longitude |-> DefaultLongitude,
                                                    isHome |-> TRUE])
                               ELSE locations
                 userLocation == IF userLocations = <<>>
                                 THEN locations2[Len(locations2)]
                                 ELSE userLocations[1]
             IN  AlertOnEntry("POST /api/login", 200, "login", user,
                              userLocation, users, locations2)

\* auth.ts: POST /api/logout: req.logout, then req.session.destroy; the browser's
\* next request gets a new session.
Logout ==
    /\ session.id < MaxSessions
    /\ session' = NewSession(session.id + 1)
    /\ resp' = [op |-> "POST /api/logout", status |-> 200]
    /\ UNCHANGED <<riverLevels, roads, reqs, users, locations, floodRisks, alerts,
                   now, outbox>>

\* Time passes between two requests.
Tick(minutes) ==
    /\ now + minutes <= MaxTime
    /\ now' = now + minutes
    /\ resp' = [op |-> "tick"]
    /\ UNCHANGED <<riverLevels, roads, reqs, users, locations, floodRisks, alerts,
                   session, outbox>>


\* ------------------------------------------------------------------ accounts: POST /api/locations

\* routes.js / part_008: hasRecentAlerts, over the alerts getAlertsByUserId returned.
hasRecentAlerts(recentAlerts) ==
    \E i \in DOMAIN recentAlerts : recentAlerts[i].createdAt > now - FiveMinutes

\* The shouldSendEmail of the handler, with the send condition that follows it:
\* routes.js asks for the email and for receiveAlerts !== false in shouldSendEmail,
\* part_008 asks for the email in the if.
locationShouldSendEmail(rev, recentAlerts, user) ==
    IF rev = "routes.js"
    THEN ~hasRecentAlerts(recentAlerts) /\ user.email # "" /\ user.receiveAlerts # FALSE
    ELSE ~hasRecentAlerts(recentAlerts) /\ user.email # ""

\* What the handler answers without touching the store.
LocationsRejected(rev, status, latitude, longitude) ==
    /\ resp' = [op |-> "POST /api/locations", status |-> status,
                latitude |-> latitude, longitude |-> longitude,
                authenticated |-> isAuthenticated,
                hadRecentAlert |-> FALSE, emailed |-> FALSE]
    /\ UNCHANGED <<riverLevels, roads, reqs, accounts>>

\* routes.js / part_008: POST /api/locations.  The location is created and answered
\* with 201, then the risk is assessed and saved, the alert is created, and the
\* user's alerts are read back for the recent-alert check.
PostLocations(rev, latitude, longitude, isHome) ==
    IF ~isAuthenticated
    THEN LocationsRejected(rev, 401, latitude, longitude)
    ELSE IF ~Truthy(session.user) \/ ~Truthy(latitude) \/ ~Truthy(longitude)
    THEN LocationsRejected(rev, 400, latitude, longitude)
    ELSE LET user == users[session.user[1]]
             userId == user.id
             locations2 == createLocation([userId |-> userId,
                                           latitude |-> latitude[1],
                                           longitude |-> longitude[1],
                                           isHome |-> isHome])
             location == locations2[Len(locations2)]
             riskAssessment == assessFloodRisk(latitude[1])
             alerts2 == createAlert(alerts, [userId |-> userId,
                                             riskLevel |-> riskAssessment.riskLevel])
             recentAlerts == getAlertsByUserId(alerts2, userId)
             send == locationShouldSendEmail(rev, recentAlerts, user)
         IN  /\ Len(alerts) < MaxAlerts
             /\ locations' = locations2
             /\ floodRisks' = createFloodRisk([userId |-> userId,
                                               locationId |-> location.id,
                                               riskLevel |-> riskAssessment.riskLevel,
                                               waterLevel |-> riskAssessment.waterLevel,
                                               thresholdLevel |->
                                                   riskAssessment.thresholdLevel])
             /\ alerts' = alerts2
             /\ outbox' = IF send
                          THEN Append(outbox, [to |-> user.email,
                                               riskLevel |-> riskAssessment.riskLevel,
                                               actionType |-> "location",
                                               sessionId |-> session.id])
                          ELSE outbox
             /\ resp' = [op |-> "POST /api/locations", status |-> 201,
                         latitude |-> latitude, longitude |-> longitude,
                         authenticated |-> TRUE,
                         hadRecentAlert |->
                             hasRecentAlerts(getAlertsByUserId(alerts, userId)),
                         emailed |-> send]
             /\ UNCHANGED <<riverLevels, roads, reqs, users, session, now>>

\* ------------------------------------------------------------------ accounts: POST /api/alerts/:id/read

\* What the handler answers without touching the store.
AlertReadRejected(status, id) ==
    /\ resp' = [op |-> "POST /api/alerts/:id/read", status |-> status, id |-> id,
                user |-> session.user]
    /\ UNCHANGED <<riverLevels, roads, reqs, accounts>>

\* The handler with the ownership check left out.
AlertRead_AnyOwner(id) ==
    IF ~isAuthenticated THEN AlertReadRejected(401, id)
    ELSE IF id = NULL THEN AlertReadRejected(400, id)
    ELSE IF getAlert(alerts, id[1]) = NULL THEN AlertReadRejected(404, id)
    ELSE /\ alerts' = markAlertAsRead(alerts, id[1])
         /\ resp' = [op |-> "POST /api/alerts/:id/read", status |-> 200, id |-> id,
                     user |-> session.user]
         /\ UNCHANGED <<riverLevels, roads, reqs, users, locations, floodRisks,
                        session, now, outbox>>

\* routes.js: POST /api/alerts/:id/read.
AlertRead(id) ==
    IF ~isAuthenticated THEN AlertReadRejected(401, id)
    ELSE IF id = NULL THEN AlertReadRejected(400, id)
    ELSE IF getAlert(alerts, id[1]) = NULL THEN AlertReadRejected(404, id)
    ELSE IF getAlert(alerts, id[1])[1].userId # session.user[1]
    THEN AlertReadRejected(403, id)
    ELSE /\ alerts' = markAlertAsRead(alerts, id[1])
         /\ resp' = [op |-> "POST /api/alerts/:id/read", status |-> 200, id |-> id,
                     user |-> session.user]
         /\ UNCHANGED <<riverLevels, roads, reqs, users, locations, floodRisks,
                        session, now, outbox>>

\* ------------------------------------------------------------------ accounts: the server

\* isHome of a POST /api/locations body after  isHome || false.
BodyIsHome == {FALSE}

InitAccounts ==
    /\ riverLevels \in AccountReadings
    /\ roads = <<>>
    /\ reqs = <<>>
    /\ resp = NoResp
    /\ NoAccounts

NextAccounts ==
    \/ \E body \in SignupBodies :
          Register(body.username, body.password, body.email, body.receiveAlerts)
    \/ \E username \in Usernames, password \in Passwords : Login(username, password)
    \/ Logout
    \/ \E rev \in {"routes.js", "part_008"}, body \in LocationBodies,
          isHome \in BodyIsHome :
          PostLocations(rev, body[1], body[2], isHome)
    \/ \E id \in AlertParams : AlertRead(id)
    \/ \E minutes \in TickSteps : Tick(minutes)

SpecAccounts == InitAccounts /\ [][NextAccounts]_vars


\* The user of the session, once somebody is logged in.
SessionUser == users[session.user[1]]

\* C23: a POST /api/locations that created the location sends the flood-alert email
\* whenever the user had no alert created within the previous five minutes, has an
\* email address and has not disabled alerts.
C23_EmailWhenNoRecentAlert ==
    (/\ resp.op = "POST /api/locations"
     /\ resp.status = 201
     /\ ~resp.hadRecentAlert
     /\ SessionUser.email # ""
     /\ SessionUser.receiveAlerts) => resp.emailed

\* C24: on one session sendFloodAlert follows a true shouldSendEmail at most once
\* for the action type login and at most once for the action type signup.
C24_OncePerActionType ==
    \A i \in DOMAIN outbox, j \in DOMAIN outbox :
        (/\ i < j
         /\ outbox[i].sessionId = outbox[j].sessionId
         /\ outbox[i].actionType \in {"login", "signup"})
        => outbox[i].actionType # outbox[j].actionType

\* C28: POST /api/alerts/:id/read changes the stored alerts only by setting isRead
\* on the alert of the id when that alert exists and belongs to the authenticated
\* user; it answers 404 for a missing alert and 403 for an alert of another user,
\* and then every stored alert is as before.
C28_ReadOnlyOwnAlert ==
    [][resp'.op = "POST /api/alerts/:id/read" =>
         /\ alerts' # alerts =>
               /\ resp'.status = 200
               /\ resp'.id[1] \in DOMAIN alerts
               /\ alerts[resp'.id[1]].userId = session.user[1]
               /\ alerts' = [alerts EXCEPT ![resp'.id[1]].isRead = TRUE]
         /\ (isAuthenticated /\ resp'.id # NULL /\ resp'.id[1] \notin DOMAIN alerts)
               => resp'.status = 404
         /\ (/\ isAuthenticated
             /\ resp'.id # NULL
             /\ resp'.id[1] \in DOMAIN alerts
             /\ alerts[resp'.id[1]].userId # session.user[1])
               => resp'.status = 403
         /\ resp'.status \in {403, 404} => alerts' = alerts
         /\ resp'.status = 200 => alerts'[resp'.id[1]].isRead]_vars

\* An unread alert of another user was asked for and answered with 403.
C28_Witness ==
    /\ resp.op = "POST /api/alerts/:id/read"
    /\ resp.status = 403
    /\ ~alerts[resp.id[1]].isRead
    /\ \E i \in DOMAIN alerts : alerts[i].isRead

\* C29: an authenticated POST /api/locations whose latitude and longitude are both
\* numbers, 0 included, is answered with 201.
C29_NumbersAccepted ==
    (/\ resp.op = "POST /api/locations"
     /\ resp.authenticated
     /\ resp.latitude # NULL
     /\ resp.longitude # NULL) => resp.status = 201

====
